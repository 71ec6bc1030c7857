--------------------------- MODULE AccountSecurity ---------------------------
(***************************************************************************)
(* One account: its password, its sessions, and the one-time links that    *)
(* verify its address or reset its password (features/account-security,    *)
(* verify-credentials.ts, require-authenticated-user.ts).                  *)
(*                                                                         *)
(* Every call reads outside its transaction.  The transaction is split     *)
(* where its UPDATE ... WHERE usedAt IS NULL takes its snapshot            *)
(* (READ COMMITTED): a link committed between that statement and the       *)
(* commit is missed.  Marking a used link used again changes nothing, so   *)
(* the row locks the statements wait for are not modelled: they only       *)
(* remove orders.                                                          *)
(***************************************************************************)
EXTENDS Integers

CONSTANTS Tokens,     \* links that will ever be issued
          Passwords,
          Requests,   \* concurrent calls
          NoToken, NoPassword

ASSUME TokensAssumption == NoToken \notin Tokens
ASSUME PasswordsAssumption == NoPassword \notin Passwords

VARIABLES password,   \* the password User.passwordHash is the hash of
          version,    \* User.sessionVersion
          verified,   \* User.emailVerifiedAt is set
          token,      \* token[t]: the row of a link
          expired,    \* links whose expiresAt has passed
          sessions,   \* JWTs that were issued
          notices,    \* idempotency keys of the PASSWORD_CHANGED mails
          request,    \* request[r]: what a call holds between two awaits
          missed,     \* missed[r]: links committed since r's snapshot (history)
          beside      \* beside[t]: links committed while t was issued (history)

vars == <<password, version, verified, token, expired, sessions, notices, request,
          missed, beside>>

Kinds == {"verification", "reset"}
Token == [kind : Kinds, status : {"absent", "unused", "used"}]
Session == [version : Nat, password : Passwords]

Request == [phase : {"idle", "login", "checked", "using", "asked", "issuing"},
            kind : Kinds, token : Tokens \cup {NoToken},
            password : Passwords \cup {NoPassword}, version : Nat,
            seen : SUBSET Tokens]

Idle == [phase |-> "idle", kind |-> "reset", token |-> NoToken,
         password |-> NoPassword, version |-> 0, seen |-> {}]

TypeOK ==
    /\ password \in Passwords
    /\ version \in Nat
    /\ verified \in BOOLEAN
    /\ token \in [Tokens -> Token]
    /\ expired \subseteq Tokens
    /\ sessions \subseteq Session
    /\ notices \subseteq Nat
    /\ request \in [Requests -> Request]
    /\ missed \in [Requests -> SUBSET Tokens]
    /\ beside \in [Tokens -> SUBSET Tokens]

Init ==
    /\ password \in Passwords
    /\ version = 0
    /\ verified = FALSE
    /\ token = [t \in Tokens |-> [kind |-> "reset", status |-> "absent"]]
    /\ expired = {}
    /\ sessions = {}
    /\ notices = {}
    /\ request = [r \in Requests |-> Idle]
    /\ missed = [r \in Requests |-> {}]
    /\ beside = [t \in Tokens |-> {}]

Unused(k) == {t \in Tokens : token[t].kind = k /\ token[t].status = "unused"}

(* isTokenUsable                                                           *)
Usable(t) == token[t].status = "unused" /\ t \notin expired

(* Mutant: the links seen by the statement stay usable.                    *)
UsedUpOnlyOne(t, S) == [u \in Tokens |-> IF u = t THEN [token[u] EXCEPT !.status = "used"]
                                         ELSE token[u]]

(* Mutant: the links are deleted instead of marked.                        *)
UsedUpDeleted(t, S) == [u \in Tokens \ (S \cup {t}) |-> token[u]]

(* markTokenUsed and invalidateActiveTokens: t and the links in S, by id.  *)
UsedUp(t, S) == [u \in Tokens |-> IF u = t \/ u \in S
                                  THEN [token[u] EXCEPT !.status = "used"] ELSE token[u]]

Expire(t) ==
    /\ token[t].status # "absent"
    /\ t \notin expired
    /\ expired' = expired \cup {t}
    /\ UNCHANGED <<password, version, verified, token, sessions, notices, request, missed, beside>>

------------------------------------------------------------------------------
(* Signing in: hash and version are read together, the password is         *)
(* verified against the hash for a while, then the JWT is issued.          *)

LoginRead(r) ==
    /\ request[r] = Idle
    /\ request' = [request EXCEPT ![r] = [Idle EXCEPT !.phase = "login", !.password = password,
                                                      !.version = version]]
    /\ UNCHANGED <<password, version, verified, token, expired, sessions, notices, missed, beside>>

(* Mutant: the version is read again when the session is issued.           *)
LiveVersion(r) == version

(* The jwt callback keeps the version read with the hash.                  *)
SignInVersion(r) == request[r].version

IssueSession(r) ==
    /\ request[r].phase = "login"
    /\ sessions' = sessions \cup {[version |-> SignInVersion(r), password |-> request[r].password]}
    /\ request' = [request EXCEPT ![r] = Idle]
    /\ UNCHANGED <<password, version, verified, token, expired, notices, missed, beside>>

(* requireAuthenticatedUser                                                *)
Accepted(s) == s.version = version

------------------------------------------------------------------------------
(* Issuing a link: requestEmailVerification, requestPasswordReset.         *)

Ask(r, k) ==
    /\ request[r] = Idle
    /\ k = "verification" => ~verified
    /\ request' = [request EXCEPT ![r] = [Idle EXCEPT !.phase = "asked", !.kind = k]]
    /\ UNCHANGED <<password, version, verified, token, expired, sessions, notices, missed, beside>>

(* invalidateActiveTokens takes its snapshot.                              *)
InvalidateActive(r) ==
    /\ request[r].phase = "asked"
    /\ request' = [request EXCEPT ![r] = [request[r] EXCEPT !.phase = "issuing",
                                                            !.seen = Unused(request[r].kind)]]
    /\ missed' = [missed EXCEPT ![r] = {}]
    /\ UNCHANGED <<password, version, verified, token, expired, sessions, notices, beside>>

(* The transaction commits: the links it saw are used up, t is new.  The   *)
(* mail that carries t is MailDelivery's Issue.                            *)
CommitIssue(r, t) ==
    /\ request[r].phase = "issuing"
    /\ token[t].status = "absent"
    /\ token' = [UsedUp(NoToken, request[r].seen) EXCEPT
                   ![t] = [kind |-> request[r].kind, status |-> "unused"]]
    /\ beside' = [beside EXCEPT ![t] = missed[r]]
    /\ missed' = [s \in Requests |-> missed[s] \cup {t}]
    /\ request' = [request EXCEPT ![r] = Idle]
    /\ UNCHANGED <<password, version, verified, expired, sessions, notices>>

------------------------------------------------------------------------------
(* Using a link: verifyEmail, resetPassword.                               *)

(* Mutant: the token is found but not checked.                             *)
OpenLinkUnchecked(r, t, p) ==
    /\ request[r] = Idle
    /\ token[t].status # "absent"
    /\ request' = [request EXCEPT ![r] = [Idle EXCEPT !.phase = "checked", !.token = t,
                                          !.kind = token[t].kind, !.password = p]]
    /\ UNCHANGED <<password, version, verified, token, expired, sessions, notices, missed, beside>>

(* The token is found and checked; a new password is then hashed.          *)
OpenLink(r, t, p) ==
    /\ request[r] = Idle
    /\ Usable(t)
    /\ request' = [request EXCEPT ![r] = [Idle EXCEPT !.phase = "checked", !.token = t,
                                          !.kind = token[t].kind, !.password = p]]
    /\ UNCHANGED <<password, version, verified, token, expired, sessions, notices, missed, beside>>

(* Mutant: a reset leaves the other links alone.                           *)
NothingInvalidated(k) == {}

(* The links a call that uses one of kind k invalidates besides.           *)
Invalidated(k) == IF k = "reset" THEN Unused("reset") ELSE {}

(* The statements up to the snapshot; the token is not looked at again.    *)
BeginUse(r) ==
    /\ request[r].phase = "checked"
    /\ request' = [request EXCEPT ![r] = [request[r] EXCEPT
                                          !.phase = "using", !.seen = Invalidated(request[r].kind)]]
    /\ missed' = [missed EXCEPT ![r] = {}]
    /\ UNCHANGED <<password, version, verified, token, expired, sessions, notices, beside>>

CommitVerify(r) ==
    /\ request[r].phase = "using" /\ request[r].kind = "verification"
    /\ verified' = TRUE
    /\ token' = UsedUp(request[r].token, {})
    /\ request' = [request EXCEPT ![r] = Idle]
    /\ UNCHANGED <<password, version, expired, sessions, notices, missed, beside>>

(* buildPasswordChangedIdempotencyKey, of the version after the increment  *)
NoticeKey(v) == v

CommitReset(r) ==
    /\ request[r].phase = "using" /\ request[r].kind = "reset"
    /\ token' = UsedUp(request[r].token, request[r].seen)
    /\ password' = request[r].password
    /\ version' = version + 1
    /\ notices' = notices \cup {NoticeKey(version + 1)}
    /\ request' = [request EXCEPT ![r] = Idle]
    /\ UNCHANGED <<verified, expired, sessions, missed, beside>>

(* The call fails or its process dies; an open transaction is rolled back. *)
Abandon(r) ==
    /\ request[r].phase # "idle"
    /\ request' = [request EXCEPT ![r] = Idle]
    /\ UNCHANGED <<password, version, verified, token, expired, sessions, notices, missed, beside>>

------------------------------------------------------------------------------
RequestStep(r) ==
    \/ LoginRead(r) \/ IssueSession(r)
    \/ \E k \in Kinds : Ask(r, k)
    \/ InvalidateActive(r)
    \/ \E t \in Tokens : CommitIssue(r, t) \/ \E p \in Passwords : OpenLink(r, t, p)
    \/ BeginUse(r) \/ CommitVerify(r) \/ CommitReset(r) \/ Abandon(r)

Next == (\E r \in Requests : RequestStep(r)) \/ (\E t \in Tokens : Expire(t))

Spec == Init /\ [][Next]_vars
==============================================================================
