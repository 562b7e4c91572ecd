---------------------------- MODULE MCEgressAudit ----------------------------
(* EgressAudit on a small instance. *)
EXTENDS EgressAudit, TLC

LocalSetting ==
  [mode |-> "local", provider |-> Unset, classes |-> {}, optIn |-> FALSE, key |-> "none",
   client |-> [mode |-> "local", provider |-> "local"], declared |-> Unset,
   labelsSafe |-> TRUE, fileBacked |-> TRUE]

CloudSetting ==
  [mode |-> "cloud", provider |-> Unset, classes |-> {}, optIn |-> TRUE, key |-> "long",
   client |-> Unset, declared |-> Unset, labelsSafe |-> TRUE, fileBacked |-> TRUE]

\* Each of these fails one condition of _authorize_model_request, or meets it otherwise.
SettingsTried ==
  LET local == LocalSetting
      cloud == CloudSetting
  IN  {local,
       [local EXCEPT !.mode = "disabled"], [local EXCEPT !.mode = "other"],
       [local EXCEPT !.provider = "other"], [local EXCEPT !.declared = {}],
       [local EXCEPT !.classes = {"metadata-redacted"}], [local EXCEPT !.client = Unset],
       [local EXCEPT !.client.mode = "cloud"], [local EXCEPT !.labelsSafe = FALSE],
       [local EXCEPT !.fileBacked = FALSE],
       cloud,
       [cloud EXCEPT !.client = [mode |-> "local", provider |-> "anthropic"]],
       [cloud EXCEPT !.provider = "other",
                     !.client = [mode |-> "cloud", provider |-> "other"]],
       [cloud EXCEPT !.optIn = FALSE], [cloud EXCEPT !.key = "none"],
       [cloud EXCEPT !.key = "short"], [cloud EXCEPT !.declared = {"metadata"}]}

CONSTANTS p1, p2

TwoAndOne == (p1 :> 2) @@ (p2 :> 1)
=============================================================================
