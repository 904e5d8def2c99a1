---------------------------- MODULE VisualRegression ----------------------------
(***************************************************************************)
(* The files of src/src/common/visual/visual-regression.service.ts: of     *)
(* each test the response seen last, and the baseline it is compared with. *)
(* Every write is synchronous, and a test awaits only once it has found a  *)
(* difference, in generateTextDiff: other tests run there.  The process    *)
(* may end in the middle of a write, which leaves a torn file.             *)
(*                                                                         *)
(* Responses are numbers; two are close if they differ by Threshold.       *)
(***************************************************************************)
EXTENDS Integers, FiniteSets

CONSTANTS
    TestName,
    Run,            \* tests under way at one time
    Response,
    Threshold,
    NoFile, Torn    \* what a path may hold besides a response

ASSUME ResponsesAreNumbers == Response \subseteq Nat /\ Threshold \in Nat
ASSUME FilesAreDistinct == NoFile \notin Response /\ Torn \notin Response \cup {NoFile}
ASSUME NoFileIsNoTest == NoFile \notin [name : TestName, response : Response, baseline : Response]

VARIABLES
    current,        \* <name>-current.json
    baseline,       \* <name>-baseline.json
    comparing,      \* a test in the middle of its await, or NoFile
    intended,       \* history: what the baseline was last set to on request
    overlapped      \* history: tests whose baseline was set during a comparison

visualVars == <<current, baseline, comparing, intended, overlapped>>

Comparison == [name : TestName, response : Response, baseline : Response]
Comparing(n) == {r \in Run : comparing[r] # NoFile /\ comparing[r].name = n}

isMatching(a, b) == a - b <= Threshold /\ b - a <= Threshold

-----------------------------------------------------------------------------
(* A baseline is set: on request, or because there was none.               *)
SetBaseline(n, c) ==
    /\ baseline' = [baseline EXCEPT ![n] = c]
    /\ intended' = [intended EXCEPT ![n] = c]
    /\ overlapped' = IF Comparing(n) = {} THEN overlapped \ {n} ELSE overlapped \cup {n}

(* runVisualTest with createBaseline, or without a baseline.               *)
createBaseline(r, n, c, asked) ==
    /\ comparing[r] = NoFile
    /\ asked \/ baseline[n] = NoFile
    /\ current' = [current EXCEPT ![n] = c]
    /\ SetBaseline(n, c)
    /\ UNCHANGED comparing

(* runVisualTest against a baseline: compareResponses returns at once if   *)
(* they match, having written both files as they were.                     *)
testMatches(r, n, c) ==
    /\ comparing[r] = NoFile
    /\ baseline[n] \in Response /\ isMatching(c, baseline[n])
    /\ current' = [current EXCEPT ![n] = c]
    /\ UNCHANGED <<baseline, comparing, intended, overlapped>>

(* A baseline that is no JSON: the test fails, with the response saved.    *)
testTorn(r, n, c) ==
    /\ comparing[r] = NoFile /\ baseline[n] = Torn
    /\ current' = [current EXCEPT ![n] = c]
    /\ UNCHANGED <<baseline, comparing, intended, overlapped>>

(* compareResponses finds a difference, and awaits generateTextDiff.       *)
testDiffers(r, n, c) ==
    /\ comparing[r] = NoFile
    /\ baseline[n] \in Response /\ ~isMatching(c, baseline[n])
    /\ current' = [current EXCEPT ![n] = c]
    /\ comparing' = [comparing EXCEPT ![r] = [name |-> n, response |-> c, baseline |-> baseline[n]]]
    /\ UNCHANGED <<baseline, intended, overlapped>>

(* Variant: the response is saved as the baseline.                         *)
finishComparisonSwapped(r) ==
    /\ comparing[r] # NoFile
    /\ LET c == comparing[r] IN
         /\ current' = [current EXCEPT ![c.name] = c.response]
         /\ baseline' = [baseline EXCEPT ![c.name] = c.response]
    /\ comparing' = [comparing EXCEPT ![r] = NoFile]
    /\ UNCHANGED <<intended, overlapped>>

(* The rest of compareResponses: both files are written, the baseline as   *)
(* it was read before the await.                                           *)
finishComparison(r) ==
    /\ comparing[r] # NoFile
    /\ LET c == comparing[r] IN
         /\ current' = [current EXCEPT ![c.name] = c.response]
         /\ baseline' = [baseline EXCEPT ![c.name] = c.baseline]
    /\ comparing' = [comparing EXCEPT ![r] = NoFile]
    /\ UNCHANGED <<intended, overlapped>>

(* updateBaselines of a result: the response that is there now.            *)
updateBaselines(n) ==
    /\ current[n] # NoFile
    /\ SetBaseline(n, current[n])
    /\ UNCHANGED <<current, comparing>>

(* cleanup, when the response is more than a week old.                     *)
cleanupOld(n) ==
    /\ current[n] # NoFile
    /\ current' = [current EXCEPT ![n] = NoFile]
    /\ UNCHANGED <<baseline, comparing, intended, overlapped>>

(* The process ends while a baseline is being written.                     *)
crashWriting(n) ==
    /\ baseline' = [baseline EXCEPT ![n] = Torn]
    /\ comparing' = [r \in Run |-> NoFile]
    /\ UNCHANGED <<current, intended, overlapped>>

VisualInit ==
    /\ current = [n \in TestName |-> NoFile] /\ baseline = [n \in TestName |-> NoFile]
    /\ comparing = [r \in Run |-> NoFile]
    /\ intended = [n \in TestName |-> NoFile] /\ overlapped = {}

VisualNext ==
    \/ \E n \in TestName : updateBaselines(n) \/ cleanupOld(n) \/ crashWriting(n)
    \/ \E r \in Run : finishComparison(r)
    \/ \E r \in Run, n \in TestName, c \in Response :
           \/ testMatches(r, n, c) \/ testTorn(r, n, c) \/ testDiffers(r, n, c)
           \/ \E asked \in BOOLEAN : createBaseline(r, n, c, asked)

VisualSpec == VisualInit /\ [][VisualNext]_visualVars
-----------------------------------------------------------------------------
VisualTypeOK ==
    /\ current \in [TestName -> Response \cup {NoFile}]
    /\ baseline \in [TestName -> Response \cup {NoFile, Torn}]
    /\ comparing \in [Run -> Comparison \cup {NoFile}]
    /\ intended \in [TestName -> Response \cup {NoFile}]
    /\ overlapped \subseteq TestName

(* A baseline is what it was last set to on request, or torn: no test      *)
(* changes it, so that tests that match within the threshold do not let it *)
(* drift.  One case is left: a baseline set while a test of the same name  *)
(* awaited its diff is put back to what it was.                            *)
BaselineIntended ==
    \A n \in TestName \ overlapped : baseline[n] \in {intended[n], Torn}
=============================================================================
