------------------------------ MODULE SettingsForm -----------------------------
(***************************************************************************)
(* The settings screen of the frontend, for one administrator: a key is    *)
(* typed and its value loaded into a form; save() stores what the form     *)
(* holds under the key as it is typed by then.  The key and the value stay *)
(* editable while requests are under way.                                  *)
(***************************************************************************)
EXTENDS Naturals

CONSTANTS
  Keys, Values,        \* what may be typed, trimmed (an empty key sends nothing)
  NoValue,             \* `null`, the value of a setting that is not there
  BadJson,             \* a text that is not JSON
  MaxLoads, MaxSaves   \* bounds: requests of an instance

VARIABLES
  settings, \* the value every key resolves to for the tenant
  key,      \* keyControl
  text,     \* the form's value
  loaded,   \* whether the form is there
  gets,     \* the GETs
  put,      \* the PUT that save() waits for
  retyped,  \* history: the key was retyped since the last GET was sent
  origin    \* history: the key whose value the form was filled with last

vars == <<settings, key, text, loaded, gets, put, retyped, origin>>

Gets == 1..MaxLoads
Stored == Values \cup {NoValue}
Texts == Stored \cup {BadJson}
GetOf(step, k, v) == [step |-> step, key |-> k, value |-> v]
InFlight(g) == gets[g].step \in {"sent", "read"}

\* The two signals that disable the buttons.
Loading == \E g \in Gets : InFlight(g)
Saving == put.step \in {"sent", "stored"}

Init ==
  /\ settings \in [Keys -> Stored]
  /\ key \in Keys
  /\ text = NoValue
  /\ loaded = FALSE
  /\ gets = [g \in Gets |-> GetOf("none", key, NoValue)]
  /\ put = [step |-> "none", count |-> 0, key |-> key, value |-> NoValue, origin |-> key, retyped |-> FALSE]
  /\ retyped = FALSE
  /\ origin = key

--------------------------------------------------------------------------------
TypeKey ==
  /\ \E k \in Keys \ {key} : key' = k
  /\ retyped' = TRUE
  /\ UNCHANGED <<settings, text, loaded, gets, put, origin>>

TypeValue ==
  /\ loaded
  /\ \E v \in Texts \ {text} : text' = v
  /\ UNCHANGED <<settings, key, loaded, gets, put, retyped, origin>>

\* The GET is sent, and the form goes until its answer is there.
SendGet(g) ==
  /\ gets[g].step = "none"
  /\ gets' = [gets EXCEPT ![g] = GetOf("sent", key, NoValue)]
  /\ retyped' = FALSE

\* Mutation: Load stays enabled while loading.
LoadAgain(g) ==
  /\ SendGet(g)
  /\ loaded' = FALSE
  /\ UNCHANGED <<settings, key, text, put, origin>>

\* load().
Load(g) ==
  /\ ~Loading
  /\ SendGet(g)
  /\ loaded' = FALSE
  /\ UNCHANGED <<settings, key, text, put, origin>>

\* resolve(), on the backend.
Resolve(g) ==
  /\ gets[g].step = "sent"
  /\ gets' = [gets EXCEPT ![g] = GetOf("read", gets[g].key, settings[gets[g].key])]
  /\ UNCHANGED <<settings, key, text, loaded, put, retyped, origin>>

\* JSON.stringify() of the answer fills the form.
Loaded(g) ==
  /\ gets[g].step = "read"
  /\ gets' = [gets EXCEPT ![g].step = "done"]
  /\ text' = gets[g].value
  /\ loaded' = TRUE
  /\ origin' = gets[g].key
  /\ UNCHANGED <<settings, key, put, retyped>>

LoadFails(g) ==
  /\ InFlight(g)
  /\ gets' = [gets EXCEPT ![g].step = "done"]
  /\ UNCHANGED <<settings, key, text, loaded, put, retyped, origin>>

\* save(): a text that is not JSON is refused before a request is sent.
Save ==
  /\ loaded /\ ~Saving /\ text # BadJson
  /\ put.count < MaxSaves
  /\ put' = [step |-> "sent", count |-> put.count + 1, key |-> key, value |-> text,
             origin |-> origin, retyped |-> retyped]
  /\ UNCHANGED <<settings, key, text, loaded, gets, retyped, origin>>

\* upsert(), on the backend.
Upsert ==
  /\ put.step = "sent"
  /\ settings' = [settings EXCEPT ![put.key] = put.value]
  /\ put' = [put EXCEPT !.step = "stored"]
  /\ UNCHANGED <<key, text, loaded, gets, retyped, origin>>

\* The toast, or an error before or after the value was stored: Save is enabled again.
Saved ==
  /\ put.step = "stored"
  /\ put' = [put EXCEPT !.step = "saved"]
  /\ UNCHANGED <<settings, key, text, loaded, gets, retyped, origin>>

SaveFails ==
  /\ Saving
  /\ put' = [put EXCEPT !.step = "failed"]
  /\ UNCHANGED <<settings, key, text, loaded, gets, retyped, origin>>

Next ==
  \/ TypeKey \/ TypeValue \/ Save
  \/ Upsert \/ Saved \/ SaveFails
  \/ \E g \in Gets : Load(g) \/ Resolve(g) \/ Loaded(g) \/ LoadFails(g)

Spec == Init /\ [][Next]_vars

--------------------------------------------------------------------------------
TypeOK ==
  /\ settings \in [Keys -> Stored] /\ key \in Keys /\ text \in Texts
  /\ loaded \in BOOLEAN /\ retyped \in BOOLEAN /\ origin \in Keys
  /\ gets \in [Gets -> [step : {"none", "sent", "read", "done"}, key : Keys, value : Texts]]
  /\ put \in [step : {"none", "sent", "stored", "saved", "failed"}, count : Nat, key : Keys,
              value : Texts, origin : Keys, retyped : BOOLEAN]

\* What was loaded for one key is stored under another only by an administrator who retyped the key
\* since: however slow the answers are, the form never shows an earlier key's value for the key of
\* the last load.
StoredWhereItWasLoaded ==
  put.step \in {"sent", "stored", "saved"} => put.key = put.origin \/ put.retyped
================================================================================
