----------------------------- MODULE BatchLedger -----------------------------
(***************************************************************************)
(* What the batch_executions table promises to the rest of the system: an  *)
(* execution is entered at most once per execution key, and an entry that  *)
(* has reached SUCCEEDED or FAILED is history and never changes again.     *)
(* Nothing is said of locks, heartbeats, crashes or recovery.              *)
(***************************************************************************)
CONSTANTS Invocations,  \* one element per call of runBatchJob
          Keys,         \* execution keys
          NoKey         \* the key of an invocation without an entry

VARIABLES status,       \* status[i]: the entry of invocation i, or "none"
          key           \* key[i]: the execution key of that entry

Terminal == {"SUCCEEDED", "FAILED"}

Init == /\ status = [i \in Invocations |-> "none"]
        /\ key = [i \in Invocations |-> NoKey]

(* A key is entered by one invocation and by no other, ever.               *)
Enter(i) ==
    /\ status[i] = "none"
    /\ status' = [status EXCEPT ![i] = "RUNNING"]
    /\ \E k \in Keys : /\ \A j \in Invocations : key[j] # k
                        /\ key' = [key EXCEPT ![i] = k]

(* Entries leave RUNNING once; one recovery may close several of them.     *)
Close ==
    /\ \E S \in SUBSET {i \in Invocations : status[i] = "RUNNING"} :
         \E outcome \in Terminal :
           status' = [i \in Invocations |-> IF i \in S THEN outcome ELSE status[i]]
    /\ UNCHANGED key

Next == Close \/ \E i \in Invocations : Enter(i)

Spec == Init /\ [][Next]_<<status, key>>
==============================================================================
