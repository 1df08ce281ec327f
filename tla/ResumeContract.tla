--------------------------- MODULE ResumeContract ---------------------------
(***************************************************************************)
(* What --resume promises for one test: a suite that asks for a result     *)
(* with some execution identity gets a stored one only if the latest       *)
(* execution of the test, whoever started it, ran to its end, passed and   *)
(* had that identity.  An execution that has begun and has not been        *)
(* recorded leaves nothing to reuse.                                       *)
(***************************************************************************)
CONSTANTS
  Suites, Identities, NoIdentity, Traces, Statuses,
  Nothing       \* no execution to reuse, no answer yet

VARIABLES
  latest,       \* the latest execution, or Nothing
  asked,        \* asked[s]: the identity suite s wants a result for
  answer        \* answer[s]: the result s goes on with, or Nothing

vars == <<latest, asked, answer>>

Init ==
  /\ latest = Nothing
  /\ asked = [s \in Suites |-> NoIdentity]
  /\ answer = [s \in Suites |-> Nothing]

Ask(s) ==
  /\ \E i \in Identities : asked' = [asked EXCEPT ![s] = i]
  /\ answer' = [answer EXCEPT ![s] = Nothing]
  /\ UNCHANGED latest

Begin(s) ==
  /\ latest' = Nothing
  /\ UNCHANGED <<asked, answer>>

Finish(s) ==
  /\ \E st \in Statuses, t \in Traces :
       /\ latest' = [identity |-> asked[s], status |-> st, trace |-> t]
       /\ answer' = [answer EXCEPT ![s] = [resumed |-> FALSE, status |-> st, trace |-> t]]
  /\ UNCHANGED asked

(* There is no identity: the test is not executed.                         *)
Refuse(s) ==
  /\ asked' = [asked EXCEPT ![s] = NoIdentity]
  /\ latest' = Nothing
  /\ \E st \in Statuses \ {"passed"}, t \in Traces :
       answer' = [answer EXCEPT ![s] = [resumed |-> FALSE, status |-> st, trace |-> t]]

Reuse(s) ==
  /\ latest # Nothing
  /\ latest.identity = asked[s]
  /\ latest.status = "passed"
  /\ answer' = [answer EXCEPT ![s] =
                  [resumed |-> TRUE, status |-> "passed", trace |-> latest.trace]]
  /\ UNCHANGED <<latest, asked>>

Next == \E s \in Suites : Ask(s) \/ Begin(s) \/ Finish(s) \/ Refuse(s) \/ Reuse(s)

Spec == Init /\ [][Next]_vars
=============================================================================
