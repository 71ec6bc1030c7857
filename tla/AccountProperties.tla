-------------------------- MODULE AccountProperties --------------------------
(***************************************************************************)
(* What a password change and a one-time link are worth.                   *)
(***************************************************************************)
EXTENDS AccountSecurity

(* A session that requireAuthenticatedUser still accepts was signed in     *)
(* with the password the account has now, also when a reset is committed   *)
(* between the read of the hash and the issue of the session.              *)
SessionsHoldCurrentPassword ==
    \A s \in sessions : Accepted(s) => s.password = password

(* "Only the newest link ever works" (invalidateActiveEmailVerification-   *)
(* Tokens) up to concurrency: two links of a kind both work only if one    *)
(* was issued while the other was being issued.                            *)
UsableLinksOverlap ==
    \A t, u \in Tokens :
        t # u /\ Usable(t) /\ Usable(u) /\ token[t].kind = token[u].kind =>
            t \in beside[u] \/ u \in beside[t]

(* Every password change is told about once: each change of version has    *)
(* its own PASSWORD_CHANGED mail, also when two calls use one link.        *)
ChangesNotified == notices = 1 .. version

(* What the owner sees of the sessions: the passwords of those accepted.   *)
SignedIn == {s.password : s \in {x \in sessions : Accepted(x)}}

(* The link a call has opened and not yet used.                            *)
Held(q) == IF q.phase \in {"checked", "using"} THEN {q.token} ELSE {}

Opened == [r \in Requests |-> Held(request[r])]

(* However calls overlap, the account is one: a session accepted now was   *)
(* signed in with the password of now; the password changes only by a call *)
(* that has found a reset link unused, which signs out every session and   *)
(* is told about by a mail of its own; a used link never comes back, so a  *)
(* link acts twice only if both calls opened it before either used it.     *)
Book == INSTANCE AccountBook WITH signedIn <- SignedIn, link <- token, opened <- Opened

AccountBookSpec == Book!Spec

(* After a reset the only reset links left are those issued during the     *)
(* reset itself (resetPassword): older mails give no second way in.        *)
ResetEndsOlderLinks ==
    [][version' # version =>
         \E r \in Requests :
            /\ request[r].phase = "using"
            /\ \A t \in Tokens :
                 token'[t].kind = "reset" /\ token'[t].status = "unused" => t \in missed[r]]_vars

(* Call r commits the use of its link.                                     *)
Uses(r) == request[r].phase = "using" /\ request'[r] = Idle

(* token-expiry.ts: "A token is usable exactly once, and only before it    *)
(* expires".  The password changes only through a link not used before.    *)
ResetsOnce ==
    [][version' # version =>
         \E r \in Requests : Uses(r) /\ token[request[r].token].status = "unused"]_vars
==============================================================================
