---------------------------- MODULE AccountBook ----------------------------
(***************************************************************************)
(* An account as its owner may think of it: signing in takes the password  *)
(* of the moment; a link is opened while it is unused and acts later, used *)
(* or not by then; a new password takes a reset link, signs everybody out  *)
(* and is told about.  The rest of what calls have read, and when a link   *)
(* expires, are left out.                                                  *)
(***************************************************************************)
CONSTANTS Tokens, Passwords, Requests

VARIABLES password,
          signedIn,   \* the passwords accepted sessions were signed in with
          verified,
          link,       \* link[t]: its kind and status
          notices,    \* mails that told of a change
          opened      \* opened[r]: the link call r has found unused, if any

vars == <<password, signedIn, verified, link, notices, opened>>

Init ==
    /\ password \in Passwords
    /\ signedIn = {}
    /\ verified = FALSE
    /\ link = [t \in Tokens |-> [kind |-> "reset", status |-> "absent"]]
    /\ notices = {}
    /\ opened = [r \in Requests |-> {}]

Issued(t, k) == link[t].kind = k /\ link[t].status # "absent"

(* Links the caller may use up with his own: those of kind k that exist.   *)
Others(k) == SUBSET {t \in Tokens : Issued(t, k)}

Used(S) == [t \in Tokens |-> IF t \in S THEN [link[t] EXCEPT !.status = "used"] ELSE link[t]]

SignIn ==
    /\ signedIn' = {password}
    /\ UNCHANGED <<password, verified, link, notices, opened>>

Issue(t, k) ==
    /\ link[t].status = "absent"
    /\ \E S \in Others(k) :
         link' = [Used(S) EXCEPT ![t] = [kind |-> k, status |-> "unused"]]
    /\ UNCHANGED <<password, signedIn, verified, notices, opened>>

Open(r, t) ==
    /\ opened[r] = {} /\ link[t].status = "unused"
    /\ opened' = [opened EXCEPT ![r] = {t}]
    /\ UNCHANGED <<password, signedIn, verified, link, notices>>

Closed(r) == [opened EXCEPT ![r] = {}]

GiveUp(r) ==
    /\ opened' = Closed(r)
    /\ UNCHANGED <<password, signedIn, verified, link, notices>>

Verify(r, t) ==
    /\ t \in opened[r] /\ Issued(t, "verification")
    /\ opened' = Closed(r)
    /\ verified' = TRUE
    /\ link' = Used({t})
    /\ UNCHANGED <<password, signedIn, notices>>

Reset(r, t) ==
    /\ t \in opened[r] /\ Issued(t, "reset")
    /\ opened' = Closed(r)
    /\ password' \in Passwords
    /\ signedIn' = {}
    /\ \E S \in Others("reset") : link' = Used({t} \cup S)
    /\ \E n \in notices' \ notices : notices' = notices \cup {n}
    /\ UNCHANGED verified

Next ==
    \/ SignIn
    \/ \E t \in Tokens : Issue(t, "verification") \/ Issue(t, "reset")
    \/ \E r \in Requests : GiveUp(r) \/ \E t \in Tokens : Open(r, t) \/ Verify(r, t) \/ Reset(r, t)

Spec == Init /\ [][Next]_vars
==============================================================================
