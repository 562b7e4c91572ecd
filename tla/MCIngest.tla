------------------------------- MODULE MCIngest -------------------------------
EXTENDS Ingest

Mail(i, id, references, reply, subject) ==
  [fixture |-> i, export |-> i, id |-> id, references |-> references, reply |-> reply,
   subject |-> subject, forwarded |-> FALSE, hint |-> Absent, mapped |-> "accepted",
   signals |-> {}, lane |-> "other", tokens |-> {}, located |-> TRUE, opaque |-> TRUE]

\* No link, one by reference to any message, to one that is missing or malformed, one by
\* reply.
Links ==
  {<<<<>>, Absent>>, <<<<Malformed>>, Absent>>, <<<<>>, Malformed>>, <<<<4>>, Absent>>,
   <<<<1, 2>>, Absent>>}
    \cup {<<<<i>>, Absent>> : i \in 1 .. 3} \cup {<<<<>>, i>> : i \in 1 .. 3}

\* Three messages: links, IDs that occur twice, subjects in common, one forwarded.
Linkings ==
  {<<[Mail(1, 1, a[1], a[2], 1) EXCEPT !.forwarded = fw],
     Mail(2, ids[1], b[1], b[2], subjects[1]),
     Mail(3, ids[2], c[1], c[2], subjects[2])>> :
     a \in {<<<<>>, Absent>>, <<<<3>>, Absent>>, <<<<>>, 2>>}, b \in Links, c \in Links,
     ids \in {<<2, 3>>, <<1, 3>>, <<2, 2>>}, subjects \in {<<1, 1>>, <<2, 2>>, <<2, 1>>},
     fw \in BOOLEAN}

\* Two messages and what the rules find in them; one may be unfit in some way.
Decisions ==
  {<<[Mail(1, 1, <<>>, Absent, 1) EXCEPT
       !.signals = s, !.lane = lane, !.tokens = {"obligation", "event"}, !.hint = hint],
     [Mail(2, 2, link, Absent, 2) EXCEPT
       !.fixture = f, !.signals = t, !.tokens = {"obligation"}, !.hint = hint,
       !.mapped = unfit[1], !.located = unfit[2], !.opaque = unfit[3]]>> :
     s \in {{}, {"noise"}, {"importance", "noise"}, {"project", "noise"}},
     t \in {{}, {"noise"}}, lane \in {"eventful", "noise"}, link \in {<<>>, <<1>>},
     f \in {1, 2}, hint \in {Absent, Null, "a"},
     unfit \in {<<"accepted", TRUE, TRUE>>, <<"accepted", TRUE, FALSE>>,
                <<"accepted", FALSE, TRUE>>, <<"rejected", TRUE, TRUE>>,
                <<"unreadable", TRUE, TRUE>>}}

MCExport == 1 .. 3
MCMessageId == 1 .. 4
MCSubject == 1 .. 2
MCHint == {"a"}

MCCorpora == Linkings \cup Decisions \cup {<<>>}
==============================================================================
