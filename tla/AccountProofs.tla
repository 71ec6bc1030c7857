---------------------------- MODULE AccountProofs ----------------------------
(***************************************************************************)
(* The properties of AccountProperties for any number of links, passwords  *)
(* and concurrent calls.                                                   *)
(***************************************************************************)
EXTENDS AccountProperties, TLAPS

(* What was read together is older than, or belongs to, the current        *)
(* password: q is a session, or a call that is about to issue one.         *)
Paired(q) == q.version <= version /\ (q.version = version => q.password = password)

SessionsPaired ==
    /\ \A s \in sessions : Paired(s)
    /\ \A r \in Requests : request[r].phase = "login" =>
                              Paired(request[r]) /\ request[r].password \in Passwords

(* A call that uses a link knows it, and the password it is to set.        *)
UsesKnown ==
    \A r \in Requests : request[r].phase \in {"checked", "using"} =>
                           request[r].token \in Tokens /\ request[r].password \in Passwords

(* An open transaction has seen every unused link of its kind, or the link *)
(* was committed since.                                                    *)
SeenOrMissed ==
    \A r \in Requests :
        request[r].phase = "issuing" \/ (request[r].phase = "using" /\ request[r].kind = "reset")
          => Unused(request[r].kind) \subseteq request[r].seen \cup missed[r]

(* UsableLinksOverlap, of expired links too.                               *)
UnusedLinksOverlap ==
    \A t, u \in Tokens :
        /\ t # u /\ token[t].kind = token[u].kind
        /\ token[t].status = "unused" /\ token[u].status = "unused"
        => t \in beside[u] \/ u \in beside[t]

Inv ==
    /\ TypeOK
    /\ SessionsPaired
    /\ UsesKnown
    /\ ChangesNotified
    /\ SeenOrMissed
    /\ UnusedLinksOverlap

USE TokensAssumption, PasswordsAssumption

LEMMA IdleType == Idle \in Request
BY DEF Idle, Request, Kinds

(* What each step does to the calls: one call moves, the others wait.      *)
LEMMA RequestTypes ==
    ASSUME TypeOK, NEW r \in Requests
    PROVE  /\ [Idle EXCEPT !.phase = "login", !.password = password, !.version = version]
                \in Request
           /\ \A k \in Kinds : [Idle EXCEPT !.phase = "asked", !.kind = k] \in Request
           /\ \A S \in SUBSET Tokens :
                [request[r] EXCEPT !.phase = "issuing", !.seen = S] \in Request
           /\ \A S \in SUBSET Tokens :
                [request[r] EXCEPT !.phase = "using", !.seen = S] \in Request
           /\ \A t \in Tokens, p \in Passwords :
                [Idle EXCEPT !.phase = "checked", !.token = t, !.kind = token[t].kind,
                             !.password = p] \in Request
<1>r. request[r] \in Request /\ password \in Passwords /\ version \in Nat
      /\ \A t \in Tokens : token[t].kind \in Kinds
  BY DEF TypeOK, Token
<1> USE <1>r DEF Request
<1>1. [Idle EXCEPT !.phase = "login", !.password = password, !.version = version] \in Request
  BY IdleType
<1>2. \A k \in Kinds : [Idle EXCEPT !.phase = "asked", !.kind = k] \in Request
  BY IdleType
<1>3. \A S \in SUBSET Tokens : [request[r] EXCEPT !.phase = "issuing", !.seen = S] \in Request
  OBVIOUS
<1>4. \A S \in SUBSET Tokens : [request[r] EXCEPT !.phase = "using", !.seen = S] \in Request
  OBVIOUS
<1>5. \A t \in Tokens, p \in Passwords :
        [Idle EXCEPT !.phase = "checked", !.token = t, !.kind = token[t].kind,
                     !.password = p] \in Request
  BY IdleType
<1> QED BY <1>1, <1>2, <1>3, <1>4, <1>5

LEMMA UsedUpType ==
    ASSUME TypeOK, NEW S \in SUBSET Tokens, NEW t PROVE UsedUp(t, S) \in [Tokens -> Token]
<1>1. \A u \in Tokens : [token[u] EXCEPT !.status = "used"] \in Token BY DEF TypeOK, Token
<1> QED BY <1>1 DEF UsedUp, TypeOK

LEMMA TypeStep == TypeOK /\ UsesKnown /\ SessionsPaired /\ [Next]_vars => TypeOK'
<1> SUFFICES ASSUME TypeOK, UsesKnown, SessionsPaired, [Next]_vars PROVE TypeOK'
  OBVIOUS
<1> USE DEF TypeOK
<1>a. ASSUME NEW r \in Requests, NEW q \in Request, request' = [request EXCEPT ![r] = q]
      PROVE  request' \in [Requests -> Request]
  BY <1>a
<1>1. ASSUME NEW r \in Requests, LoginRead(r) PROVE TypeOK'
  BY <1>1, <1>a, RequestTypes DEF LoginRead
<1>2. ASSUME NEW r \in Requests, IssueSession(r) PROVE TypeOK'
  <2>1. [version |-> SignInVersion(r), password |-> request[r].password] \in Session
    BY <1>2 DEF IssueSession, SessionsPaired, Session, SignInVersion, Request
  <2> QED BY <1>2, <2>1, <1>a, IdleType DEF IssueSession
<1>3. ASSUME NEW r \in Requests, NEW k \in Kinds, Ask(r, k) PROVE TypeOK'
  BY <1>3, <1>a, RequestTypes DEF Ask
<1>4. ASSUME NEW r \in Requests, InvalidateActive(r) PROVE TypeOK'
  BY <1>4, <1>a, RequestTypes DEF InvalidateActive, Unused
<1>5. ASSUME NEW r \in Requests, NEW t \in Tokens, CommitIssue(r, t) PROVE TypeOK'
  <2>1. request[r].kind \in Kinds /\ request[r].seen \in SUBSET Tokens BY DEF Request
  <2>2. [kind |-> request[r].kind, status |-> "unused"] \in Token BY <2>1 DEF Token
  <2>3. token' \in [Tokens -> Token] BY <1>5, <2>1, <2>2, UsedUpType DEF CommitIssue
  <2>4. request' \in [Requests -> Request] BY <1>5, <1>a, IdleType DEF CommitIssue
  <2> QED BY <1>5, <2>3, <2>4 DEF CommitIssue
<1>6. ASSUME NEW r \in Requests, NEW t \in Tokens, NEW p \in Passwords, OpenLink(r, t, p)
      PROVE  TypeOK'
  BY <1>6, <1>a, RequestTypes DEF OpenLink
<1>7. ASSUME NEW r \in Requests, BeginUse(r) PROVE TypeOK'
  <2>1. Invalidated(request[r].kind) \in SUBSET Tokens BY DEF Invalidated, Unused
  <2> QED BY <1>7, <2>1, <1>a, RequestTypes DEF BeginUse
<1>8. ASSUME NEW r \in Requests, CommitVerify(r) PROVE TypeOK'
  BY <1>8, <1>a, IdleType, UsedUpType DEF CommitVerify
<1>9. ASSUME NEW r \in Requests, CommitReset(r) PROVE TypeOK'
  <2>1. request[r].seen \in SUBSET Tokens /\ request[r].password \in Passwords
    BY <1>9 DEF CommitReset, UsesKnown, Request
  <2>2. token' \in [Tokens -> Token] BY <1>9, <2>1, UsedUpType DEF CommitReset
  <2>3. request' \in [Requests -> Request] BY <1>9, <1>a, IdleType DEF CommitReset
  <2> QED BY <1>9, <2>1, <2>2, <2>3 DEF CommitReset, NoticeKey
<1>10. ASSUME NEW r \in Requests, Abandon(r) PROVE TypeOK'
  BY <1>10, <1>a, IdleType DEF Abandon
<1>11. ASSUME NEW t \in Tokens, Expire(t) PROVE TypeOK'
  BY <1>11 DEF Expire
<1> QED
  BY <1>1, <1>2, <1>3, <1>4, <1>5, <1>6, <1>7, <1>8, <1>9, <1>10, <1>11
     DEF Next, RequestStep, vars

------------------------------------------------------------------------------
(* Versions and passwords.                                                 *)

LEMMA PairStep == Inv /\ TypeOK' /\ [Next]_vars => SessionsPaired' /\ UsesKnown' /\ ChangesNotified'
<1> SUFFICES ASSUME Inv, TypeOK', [Next]_vars
             PROVE  SessionsPaired' /\ UsesKnown' /\ ChangesNotified'
  OBVIOUS
<1> USE DEF Inv, SessionsPaired, UsesKnown, ChangesNotified, Paired
<1>t. /\ password \in Passwords /\ version \in Nat /\ request \in [Requests -> Request]
      /\ \A s \in sessions : s.version \in Nat
      /\ \A r \in Requests : request[r].version \in Nat
  BY DEF TypeOK, Session, Request
<1>1. ASSUME NEW r \in Requests, LoginRead(r)
      PROVE  SessionsPaired' /\ UsesKnown' /\ ChangesNotified'
  <2> DEFINE q == [Idle EXCEPT !.phase = "login", !.password = password, !.version = version]
  <2>1. q.phase = "login" /\ q.version = version /\ q.password = password BY DEF Idle
  <2>2. /\ request' = [request EXCEPT ![r] = q]
        /\ UNCHANGED <<password, version, sessions, notices>> BY <1>1 DEF LoginRead
  <2> HIDE DEF q
  <2>3. \A s \in Requests : request'[s] = IF s = r THEN q ELSE request[s] BY <1>t, <2>2
  <2> QED BY <1>t, <2>1, <2>2, <2>3
<1>2. ASSUME NEW r \in Requests, IssueSession(r)
      PROVE  SessionsPaired' /\ UsesKnown' /\ ChangesNotified'
  <2>1. Idle.phase = "idle" BY DEF Idle
  <2>2. \A s \in Requests : request'[s] = IF s = r THEN Idle ELSE request[s]
    BY <1>t, <1>2 DEF IssueSession
  <2> DEFINE j == [version |-> SignInVersion(r), password |-> request[r].password]
  <2>3. Paired(j) BY <1>2 DEF IssueSession, SignInVersion
  <2>4. sessions' = sessions \cup {j} /\ UNCHANGED <<password, version, notices>>
    BY <1>2 DEF IssueSession
  <2> HIDE DEF j
  <2> QED BY <1>t, <2>1, <2>2, <2>3, <2>4
<1>3. ASSUME NEW r \in Requests, CommitReset(r)
      PROVE  SessionsPaired' /\ UsesKnown' /\ ChangesNotified'
  <2>1. Idle.phase = "idle" BY DEF Idle
  <2>2. \A s \in Requests : request'[s] = IF s = r THEN Idle ELSE request[s]
    BY <1>t, <1>3 DEF CommitReset
  <2>3. version' = version + 1 /\ sessions' = sessions BY <1>3 DEF CommitReset
  <2>4. SessionsPaired' BY <1>t, <2>1, <2>2, <2>3
  <2>5. UsesKnown' BY <1>t, <2>1, <2>2
  <2>6. notices' = notices \cup {version + 1} BY <1>3 DEF CommitReset, NoticeKey
  <2>7. 1 .. (version + 1) = (1 .. version) \cup {version + 1} BY <1>t
  <2> QED BY <2>3, <2>4, <2>5, <2>6, <2>7
<1>4. ASSUME NEW r \in Requests, NEW t \in Tokens, NEW p \in Passwords, OpenLink(r, t, p)
      PROVE  SessionsPaired' /\ UsesKnown' /\ ChangesNotified'
  <2> DEFINE q == [Idle EXCEPT !.phase = "checked", !.token = t, !.kind = token[t].kind,
                               !.password = p]
  <2>1. q.phase = "checked" /\ q.token = t /\ q.password = p BY DEF Idle
  <2>2. /\ request' = [request EXCEPT ![r] = q]
        /\ UNCHANGED <<password, version, sessions, notices>> BY <1>4 DEF OpenLink
  <2> HIDE DEF q
  <2>3. \A s \in Requests : request'[s] = IF s = r THEN q ELSE request[s] BY <1>t, <2>2
  <2> QED BY <1>t, <2>1, <2>2, <2>3
<1>5. ASSUME NEW r \in Requests, BeginUse(r)
      PROVE  SessionsPaired' /\ UsesKnown' /\ ChangesNotified'
  <2> DEFINE q == [request[r] EXCEPT !.phase = "using",
                                     !.seen = Invalidated(request[r].kind)]
  <2>1. /\ q.phase = "using" /\ q.token = request[r].token /\ q.password = request[r].password
        /\ request[r].phase = "checked"
    BY <1>t, <1>5 DEF BeginUse, Request
  <2>2. /\ request' = [request EXCEPT ![r] = q]
        /\ UNCHANGED <<password, version, sessions, notices>> BY <1>5 DEF BeginUse
  <2> HIDE DEF q
  <2>3. \A s \in Requests : request'[s] = IF s = r THEN q ELSE request[s] BY <1>t, <2>2
  <2> QED BY <1>t, <2>1, <2>2, <2>3
<1>6. ASSUME NEW r \in Requests,
             \/ \E k \in Kinds : Ask(r, k)
             \/ InvalidateActive(r)
             \/ \E t \in Tokens : CommitIssue(r, t)
             \/ CommitVerify(r) \/ Abandon(r)
      PROVE  SessionsPaired' /\ UsesKnown' /\ ChangesNotified'
  <2>1. UNCHANGED <<password, version, sessions, notices>>
    BY <1>6 DEF Ask, InvalidateActive, CommitIssue, CommitVerify, Abandon
  <2>2. PICK q : request' = [request EXCEPT ![r] = q] /\ q.phase \in {"idle", "asked", "issuing"}
    <3>1. Idle.phase = "idle" BY DEF Idle
    <3>2. \A k \in Kinds : [Idle EXCEPT !.phase = "asked", !.kind = k].phase = "asked" BY DEF Idle
    <3>3. [request[r] EXCEPT !.phase = "issuing", !.seen = Unused(request[r].kind)].phase
            = "issuing" BY <1>t DEF Request
    <3>4. CASE \E k \in Kinds : Ask(r, k) BY <3>4, <3>2 DEF Ask
    <3>5. CASE InvalidateActive(r) BY <3>5, <3>3 DEF InvalidateActive
    <3>6. CASE (\E t \in Tokens : CommitIssue(r, t)) \/ CommitVerify(r) \/ Abandon(r)
      BY <3>6, <3>1 DEF CommitIssue, CommitVerify, Abandon
    <3> QED BY <1>6, <3>4, <3>5, <3>6
  <2>3. \A s \in Requests : request'[s] = IF s = r THEN q ELSE request[s] BY <1>t, <2>2
  <2> QED BY <1>t, <2>1, <2>2, <2>3
<1>7. ASSUME (\E t \in Tokens : Expire(t)) \/ UNCHANGED vars
      PROVE  SessionsPaired' /\ UsesKnown' /\ ChangesNotified'
  BY <1>7 DEF Expire, vars
<1> QED BY <1>1, <1>2, <1>3, <1>4, <1>5, <1>6, <1>7 DEF Next, RequestStep

------------------------------------------------------------------------------
(* Links.                                                                  *)

LEMMA UsedUpUnused ==
    ASSUME TypeOK, NEW S \in SUBSET Tokens, NEW t, NEW u \in Tokens
    PROVE  /\ UsedUp(t, S)[u].kind = token[u].kind
           /\ UsedUp(t, S)[u].status = "unused" =>
                 token[u].status = "unused" /\ u \notin S /\ u # t
BY DEF UsedUp, TypeOK, Token

(* Steps that only use links up, and move no call into a transaction.      *)
LEMMA LinksShrink ==
    ASSUME Inv, TypeOK', beside' = beside, missed' = missed,
           \A u \in Tokens : token'[u].status = "unused" =>
               token[u].status = "unused" /\ token'[u].kind = token[u].kind,
           \A s \in Requests : request'[s] = request[s]
               \/ request'[s].phase \notin {"issuing", "using"}
    PROVE  SeenOrMissed' /\ UnusedLinksOverlap'
<1> USE DEF Inv
<1>1. SeenOrMissed'
  <2> SUFFICES ASSUME NEW s \in Requests, NEW u \in Unused(request[s].kind)',
                      \/ request'[s].phase = "issuing"
                      \/ request'[s].phase = "using" /\ request'[s].kind = "reset"
               PROVE  u \in request'[s].seen \cup missed'[s]
    BY DEF SeenOrMissed
  <2>1. request'[s] = request[s] OBVIOUS
  <2>2. u \in Unused(request[s].kind) BY <2>1 DEF Unused
  <2> QED BY <2>1, <2>2 DEF SeenOrMissed
<1>2. UnusedLinksOverlap' BY DEF UnusedLinksOverlap
<1> QED BY <1>1, <1>2

(* Steps that take the snapshot of a transaction.                          *)
LEMMA SnapshotStep ==
    ASSUME Inv, TypeOK', NEW r \in Requests, NEW q,
           token' = token, beside' = beside,
           missed' = [missed EXCEPT ![r] = {}],
           request' = [request EXCEPT ![r] = q],
           (q.phase = "using" /\ q.kind # "reset") \/ Unused(q.kind) \subseteq q.seen
    PROVE  SeenOrMissed' /\ UnusedLinksOverlap'
<1> USE DEF Inv
<1>1. \A s \in Requests : s # r => request'[s] = request[s] /\ missed'[s] = missed[s]
  BY DEF TypeOK
<1>2. request'[r] = q BY DEF TypeOK
<1>5. SeenOrMissed'
  <2> SUFFICES ASSUME NEW s \in Requests, NEW u \in Tokens,
                      token'[u].kind = request'[s].kind, token'[u].status = "unused",
                      \/ request'[s].phase = "issuing"
                      \/ request'[s].phase = "using" /\ request'[s].kind = "reset"
               PROVE  u \in request'[s].seen \cup missed'[s]
    BY DEF SeenOrMissed, Unused
  <2>1. u \in Unused(request'[s].kind) BY DEF Unused
  <2>2. CASE s = r BY <2>1, <2>2, <1>2
  <2>3. CASE s # r BY <2>1, <2>3, <1>1 DEF SeenOrMissed
  <2> QED BY <2>2, <2>3
<1>6. UnusedLinksOverlap' BY DEF UnusedLinksOverlap
<1> QED BY <1>5, <1>6

(* A new link: what was unused and is not used up now was missed.          *)
LEMMA CommitIssueStep ==
    ASSUME Inv, TypeOK', NEW r \in Requests, NEW t \in Tokens, CommitIssue(r, t)
    PROVE  SeenOrMissed' /\ UnusedLinksOverlap'
<1> USE DEF Inv
<1>1. /\ request[r].phase = "issuing" /\ token[t].status = "absent"
      /\ token' = [UsedUp(NoToken, request[r].seen) EXCEPT
                     ![t] = [kind |-> request[r].kind, status |-> "unused"]]
      /\ beside' = [beside EXCEPT ![t] = missed[r]]
      /\ missed' = [s \in Requests |-> missed[s] \cup {t}]
      /\ request' = [request EXCEPT ![r] = Idle]
  BY DEF CommitIssue
<1>2. request[r].kind \in Kinds /\ request[r].seen \in SUBSET Tokens BY DEF TypeOK, Request
<1>3. \A u \in Tokens : u # t => token'[u] = UsedUp(NoToken, request[r].seen)[u]
  BY <1>1 DEF UsedUp
<1>4. token'[t] = [kind |-> request[r].kind, status |-> "unused"]
  BY <1>1 DEF UsedUp
<1>5. \A u \in Tokens : u # t /\ token'[u].status = "unused" =>
         token[u].status = "unused" /\ token'[u].kind = token[u].kind /\ u \notin request[r].seen
  BY <1>2, <1>3, UsedUpUnused
<1>6. SeenOrMissed'
  <2> SUFFICES ASSUME NEW s \in Requests, NEW u \in Tokens,
                      token'[u].kind = request'[s].kind, token'[u].status = "unused",
                      \/ request'[s].phase = "issuing"
                      \/ request'[s].phase = "using" /\ request'[s].kind = "reset"
               PROVE  u \in request'[s].seen \cup missed'[s]
    BY DEF SeenOrMissed, Unused
  <2>1. request'[s] = request[s]
    BY <1>1 DEF TypeOK, Idle
  <2>2. missed'[s] = missed[s] \cup {t} BY <1>1
  <2>3. ASSUME u # t PROVE u \in Unused(request[s].kind)
    BY <2>1, <2>3, <1>5 DEF Unused
  <2> QED BY <2>1, <2>2, <2>3 DEF SeenOrMissed
<1>7. ASSUME NEW u \in Tokens, u # t, token'[u].status = "unused",
             token'[u].kind = request[r].kind
      PROVE  u \in beside'[t]
  <2>1. u \in Unused(request[r].kind) /\ u \notin request[r].seen BY <1>7, <1>5 DEF Unused
  <2>2. u \in missed[r] BY <2>1, <1>1 DEF SeenOrMissed
  <2> QED BY <2>2, <1>1 DEF TypeOK
<1>8. UnusedLinksOverlap'
  <2> SUFFICES ASSUME NEW u \in Tokens, NEW v \in Tokens, u # v,
                      token'[u].kind = token'[v].kind,
                      token'[u].status = "unused", token'[v].status = "unused"
               PROVE  u \in beside'[v] \/ v \in beside'[u]
    BY DEF UnusedLinksOverlap
  <2>1. CASE u = t BY <2>1, <1>4, <1>7
  <2>2. CASE v = t BY <2>2, <1>4, <1>7
  <2>3. CASE u # t /\ v # t
    <3>1. beside'[u] = beside[u] /\ beside'[v] = beside[v] BY <2>3, <1>1 DEF TypeOK
    <3> QED BY <2>3, <3>1, <1>5 DEF UnusedLinksOverlap
  <2> QED BY <2>1, <2>2, <2>3
<1> QED BY <1>6, <1>8

LEMMA LinkStep == Inv /\ TypeOK' /\ [Next]_vars => SeenOrMissed' /\ UnusedLinksOverlap'
<1> SUFFICES ASSUME Inv, TypeOK', [Next]_vars PROVE SeenOrMissed' /\ UnusedLinksOverlap'
  OBVIOUS
<1>t. request \in [Requests -> Request] /\ token \in [Tokens -> Token] BY DEF Inv, TypeOK
<1>i. Idle.phase = "idle" BY DEF Idle
<1>1. ASSUME NEW r \in Requests, InvalidateActive(r) PROVE SeenOrMissed' /\ UnusedLinksOverlap'
  <2> DEFINE q == [request[r] EXCEPT !.phase = "issuing", !.seen = Unused(request[r].kind)]
  <2>1. q.kind = request[r].kind /\ q.seen = Unused(request[r].kind) BY <1>t DEF Request
  <2>2. /\ request' = [request EXCEPT ![r] = q] /\ missed' = [missed EXCEPT ![r] = {}]
        /\ token' = token /\ beside' = beside BY <1>1 DEF InvalidateActive
  <2> HIDE DEF q
  <2> QED BY <2>1, <2>2, SnapshotStep
<1>2. ASSUME NEW r \in Requests, BeginUse(r) PROVE SeenOrMissed' /\ UnusedLinksOverlap'
  <2> DEFINE q == [request[r] EXCEPT !.phase = "using", !.seen = Invalidated(request[r].kind)]
  <2>1. q.phase = "using" /\ q.kind = request[r].kind /\ q.seen = Invalidated(request[r].kind)
    BY <1>t DEF Request
  <2>2. /\ request' = [request EXCEPT ![r] = q] /\ missed' = [missed EXCEPT ![r] = {}]
        /\ token' = token /\ beside' = beside BY <1>2 DEF BeginUse
  <2> HIDE DEF q
  <2>3. q.kind # "reset" \/ Unused(q.kind) \subseteq q.seen BY <2>1 DEF Invalidated
  <2> QED BY <2>1, <2>2, <2>3, SnapshotStep
<1>3. ASSUME NEW r \in Requests, NEW t \in Tokens, CommitIssue(r, t)
      PROVE  SeenOrMissed' /\ UnusedLinksOverlap'
  BY <1>3, CommitIssueStep
<1>4. ASSUME NEW r \in Requests, CommitVerify(r) \/ CommitReset(r)
      PROVE  SeenOrMissed' /\ UnusedLinksOverlap'
  <2>1. PICK S \in SUBSET Tokens : token' = UsedUp(request[r].token, S)
    BY <1>4, <1>t DEF CommitVerify, CommitReset, Request
  <2>2. /\ request' = [request EXCEPT ![r] = Idle] /\ beside' = beside /\ missed' = missed
    BY <1>4 DEF CommitVerify, CommitReset
  <2>3. \A s \in Requests : request'[s] = IF s = r THEN Idle ELSE request[s] BY <2>2, <1>t
  <2>4. \A u \in Tokens : token'[u].status = "unused" =>
           token[u].status = "unused" /\ token'[u].kind = token[u].kind
    BY <2>1, UsedUpUnused DEF Inv, Kinds
  <2> QED BY <2>2, <2>3, <2>4, <1>i, LinksShrink
<1>5. ASSUME NEW r \in Requests,
             \/ LoginRead(r) \/ IssueSession(r) \/ Abandon(r)
             \/ \E k \in Kinds : Ask(r, k)
             \/ \E t \in Tokens, p \in Passwords : OpenLink(r, t, p)
      PROVE  SeenOrMissed' /\ UnusedLinksOverlap'
  <2>1. UNCHANGED <<token, missed, beside>>
    BY <1>5 DEF LoginRead, IssueSession, Abandon, Ask, OpenLink
  <2>2. PICK q : request' = [request EXCEPT ![r] = q] /\ q.phase \notin {"issuing", "using"}
    <3>1. CASE LoginRead(r)
      <4>1. [Idle EXCEPT !.phase = "login", !.password = password,
                         !.version = version].phase = "login" BY DEF Idle
      <4> QED BY <3>1, <4>1 DEF LoginRead
    <3>2. ASSUME NEW k \in Kinds, Ask(r, k)
          PROVE  \E q : request' = [request EXCEPT ![r] = q] /\ q.phase \notin {"issuing", "using"}
      <4>1. [Idle EXCEPT !.phase = "asked", !.kind = k].phase = "asked" BY DEF Idle
      <4> QED BY <3>2, <4>1 DEF Ask
    <3>3. ASSUME NEW t \in Tokens, NEW p \in Passwords, OpenLink(r, t, p)
          PROVE  \E q : request' = [request EXCEPT ![r] = q] /\ q.phase \notin {"issuing", "using"}
      <4>1. [Idle EXCEPT !.phase = "checked", !.token = t, !.kind = token[t].kind,
                         !.password = p].phase = "checked" BY DEF Idle
      <4> QED BY <3>3, <4>1 DEF OpenLink
    <3>4. CASE IssueSession(r) \/ Abandon(r) BY <3>4, <1>i DEF IssueSession, Abandon
    <3> QED BY <1>5, <3>1, <3>2, <3>3, <3>4
  <2>3. \A s \in Requests : request'[s] = IF s = r THEN q ELSE request[s] BY <2>2, <1>t
  <2> QED BY <2>1, <2>2, <2>3, LinksShrink
<1>6. ASSUME (\E t \in Tokens : Expire(t)) \/ UNCHANGED vars
      PROVE  SeenOrMissed' /\ UnusedLinksOverlap'
  <2>1. UNCHANGED <<token, missed, beside, request>> BY <1>6 DEF Expire, vars
  <2> QED BY <2>1, LinksShrink
<1> QED BY <1>1, <1>2, <1>3, <1>4, <1>5, <1>6 DEF Next, RequestStep

------------------------------------------------------------------------------
(* The inductive invariant of the account: what was read together, what    *)
(* open transactions have seen, and how links overlap.                     *)
THEOREM InvCorrect == Spec => []Inv
<1>1. Init => Inv
  <2> SUFFICES ASSUME Init PROVE Inv
    OBVIOUS
  <2>1. TypeOK
    <3>1. [kind |-> "reset", status |-> "absent"] \in Token BY DEF Token, Kinds
    <3> QED BY <3>1, IdleType DEF Init, TypeOK
  <2>2. \A r \in Requests : request[r].phase = "idle" BY DEF Init, Idle
  <2>3. \A t \in Tokens : token[t].status = "absent" BY DEF Init
  <2> QED BY <2>1, <2>2, <2>3 DEF Init, Inv, SessionsPaired, UsesKnown, ChangesNotified,
                                  SeenOrMissed, UnusedLinksOverlap
<1>2. Inv /\ [Next]_vars => Inv'
  <2> SUFFICES ASSUME Inv, [Next]_vars PROVE Inv'
    OBVIOUS
  <2>1. TypeOK' BY TypeStep DEF Inv
  <2>2. SessionsPaired' /\ UsesKnown' /\ ChangesNotified' BY <2>1, PairStep
  <2>3. SeenOrMissed' /\ UnusedLinksOverlap' BY <2>1, LinkStep
  <2> QED BY <2>1, <2>2, <2>3 DEF Inv
<1> QED BY <1>1, <1>2, PTL DEF Spec

(* Every reachable state is well typed.                                    *)
THEOREM TypeCorrect == Spec => []TypeOK
<1>1. Inv => TypeOK BY DEF Inv
<1> QED BY <1>1, InvCorrect, PTL

(* A session that is still accepted was signed in with the current         *)
(* password (requireAuthenticatedUser).                                    *)
THEOREM SessionsHoldCurrentPasswordHolds == Spec => []SessionsHoldCurrentPassword
<1>1. Inv => SessionsHoldCurrentPassword
  BY DEF Inv, SessionsPaired, Paired, SessionsHoldCurrentPassword, Accepted
<1> QED BY <1>1, InvCorrect, PTL

(* Two links of a kind that both work were issued beside each other        *)
(* (invalidateActiveEmailVerificationTokens).                              *)
THEOREM UsableLinksOverlapHolds == Spec => []UsableLinksOverlap
<1>1. Inv => UsableLinksOverlap BY DEF Inv, UnusedLinksOverlap, UsableLinksOverlap, Usable
<1> QED BY <1>1, InvCorrect, PTL

(* Every password change has its own notice (resetPassword).               *)
THEOREM ChangesNotifiedHolds == Spec => []ChangesNotified
<1>1. Inv => ChangesNotified BY DEF Inv
<1> QED BY <1>1, InvCorrect, PTL

(* No reset link that resetPassword's statement could see outlives it.     *)
THEOREM ResetEndsOlderLinksHolds == Spec => ResetEndsOlderLinks
<1>1. Inv /\ [Next]_vars =>
        [version' # version =>
           \E r \in Requests :
              /\ request[r].phase = "using"
              /\ \A t \in Tokens :
                   token'[t].kind = "reset" /\ token'[t].status = "unused"
                     => t \in missed[r]]_vars
  <2> SUFFICES ASSUME Inv, [Next]_vars, version' # version
               PROVE  \E r \in Requests :
                        /\ request[r].phase = "using"
                        /\ \A t \in Tokens :
                             token'[t].kind = "reset" /\ token'[t].status = "unused"
                               => t \in missed[r]
    OBVIOUS
  <2> USE DEF Inv
  <2>1. PICK r \in Requests : CommitReset(r)
    BY DEF Next, RequestStep, vars, LoginRead, IssueSession, Ask, InvalidateActive, CommitIssue,
       OpenLink, BeginUse, CommitVerify, Abandon, Expire
  <2>2. /\ request[r].phase = "using" /\ request[r].kind = "reset"
        /\ token' = UsedUp(request[r].token, request[r].seen)
    BY <2>1 DEF CommitReset
  <2>3. request[r].seen \in SUBSET Tokens BY DEF TypeOK, Request
  <2>4. ASSUME NEW t \in Tokens, token'[t].kind = "reset", token'[t].status = "unused"
        PROVE  t \in missed[r]
    <3>1. token[t].kind = "reset" /\ token[t].status = "unused" /\ t \notin request[r].seen
      BY <2>2, <2>3, <2>4, UsedUpUnused DEF Kinds
    <3> QED BY <3>1, <2>2 DEF SeenOrMissed, Unused
  <2> QED BY <2>2, <2>4
<1> QED BY InvCorrect, <1>1, PTL DEF Spec, ResetEndsOlderLinks

------------------------------------------------------------------------------
(* The account as one.  Calls name links only while those exist.           *)
Known(t, k) == token[t].kind = k /\ token[t].status # "absent"

LinksKnown ==
    \A r \in Requests :
        /\ request[r].phase \in {"checked", "using"} => Known(request[r].token, request[r].kind)
        /\ request[r].phase \in {"issuing", "using"} =>
              \A u \in request[r].seen : Known(u, request[r].kind)

(* A link that was issued stays, and stays of its kind.                    *)
LEMMA KnownLasts ==
    ASSUME Inv, [Next]_vars, NEW u \in Tokens, NEW k, Known(u, k)
    PROVE  Known(u, k)'
<1> USE DEF Known
<1>1. ASSUME NEW S \in SUBSET Tokens, NEW t
      PROVE  UsedUp(t, S)[u].kind = k /\ UsedUp(t, S)[u].status # "absent"
  BY DEF UsedUp, Inv, TypeOK, Token
<1>2. ASSUME NEW r \in Requests, NEW t \in Tokens, CommitIssue(r, t) PROVE Known(u, k)'
  <2>1. request[r].seen \in SUBSET Tokens BY DEF Inv, TypeOK, Request
  <2>2. u # t BY <1>2 DEF CommitIssue
  <2>3. token'[u] = UsedUp(NoToken, request[r].seen)[u] BY <1>2, <2>2 DEF CommitIssue, UsedUp
  <2> QED BY <1>1, <2>1, <2>3
<1>3. ASSUME NEW r \in Requests, CommitVerify(r) \/ CommitReset(r) PROVE Known(u, k)'
  <2>1. PICK S \in SUBSET Tokens : token' = UsedUp(request[r].token, S)
    BY <1>3 DEF CommitVerify, CommitReset, Inv, TypeOK, Request
  <2> QED BY <1>1, <2>1
<1>4. CASE token' = token BY <1>4
<1> QED
  BY <1>2, <1>3, <1>4
     DEF Next, RequestStep, vars, LoginRead, IssueSession, Ask, InvalidateActive, OpenLink,
         BeginUse, Abandon, Expire

(* A step moves one call, and what the call then holds are known links.    *)
LEMMA LinksKnownStep == Inv /\ LinksKnown /\ [Next]_vars => LinksKnown'
<1> SUFFICES ASSUME Inv, LinksKnown, [Next]_vars PROVE LinksKnown'
  OBVIOUS
<1>t. /\ request \in [Requests -> Request]
      /\ \A r \in Requests : request[r].seen \in SUBSET Tokens
  BY DEF Inv, TypeOK, Request
<1>u. \A r \in Requests : request[r].phase \in {"checked", "using"} => request[r].token \in Tokens
  BY DEF Inv, UsesKnown
<1> DEFINE Holds(q) ==
             /\ q.phase \in {"checked", "using"} => q.token \in Tokens /\ Known(q.token, q.kind)
             /\ q.phase \in {"issuing", "using"} =>
                   q.seen \in SUBSET Tokens /\ \A u \in q.seen : Known(u, q.kind)
<1>h. \A r \in Requests : Holds(request[r]) BY <1>t, <1>u DEF LinksKnown
<1>k. ASSUME NEW q, Holds(q) PROVE Holds(q)'
  <2>1. \A u \in Tokens : Known(u, q.kind) => Known(u, q.kind)' BY KnownLasts
  <2> QED BY <1>k, <2>1 DEF Known
<1>m. ASSUME NEW r \in Requests, NEW q, request' = [request EXCEPT ![r] = q], Holds(q)
      PROVE  LinksKnown'
  <2>1. ASSUME NEW s \in Requests PROVE Holds(request[s])' 
    <3>1. CASE s = r
      <4>1. request'[s] = q BY <1>m, <1>t, <3>1
      <4> QED BY <1>m, <1>k, <4>1 DEF Known
    <3>2. CASE s # r
      <4>1. request'[s] = request[s] BY <1>m, <1>t, <3>2
      <4>2. Holds(request[s]) BY <1>h
      <4> QED BY KnownLasts, <4>1, <4>2 DEF Known
    <3> QED BY <3>1, <3>2
  <2> QED BY <2>1 DEF LinksKnown
<1>1. ASSUME NEW r \in Requests, InvalidateActive(r) PROVE LinksKnown'
  <2> DEFINE q == [request[r] EXCEPT !.phase = "issuing", !.seen = Unused(request[r].kind)]
  <2>1. q.phase = "issuing" /\ q.kind = request[r].kind /\ q.seen = Unused(request[r].kind)
    BY <1>t DEF Request
  <2>2. request' = [request EXCEPT ![r] = q] BY <1>1 DEF InvalidateActive
  <2> HIDE DEF q
  <2>3. Holds(q) BY <2>1 DEF Unused, Known
  <2> QED BY <2>2, <2>3, <1>m
<1>2. ASSUME NEW r \in Requests, NEW t \in Tokens, NEW p \in Passwords, OpenLink(r, t, p)
      PROVE  LinksKnown'
  <2> DEFINE q == [Idle EXCEPT !.phase = "checked", !.token = t, !.kind = token[t].kind,
                               !.password = p]
  <2>1. q.phase = "checked" /\ q.token = t /\ q.kind = token[t].kind BY DEF Idle
  <2>2. request' = [request EXCEPT ![r] = q] /\ token[t].status = "unused"
    BY <1>2 DEF OpenLink, Usable
  <2> HIDE DEF q
  <2>3. Holds(q) BY <2>1, <2>2 DEF Known
  <2> QED BY <2>2, <2>3, <1>m
<1>3. ASSUME NEW r \in Requests, BeginUse(r) PROVE LinksKnown'
  <2> DEFINE q == [request[r] EXCEPT !.phase = "using", !.seen = Invalidated(request[r].kind)]
  <2>1. /\ q.phase = "using" /\ q.kind = request[r].kind /\ q.token = request[r].token
        /\ q.seen = Invalidated(request[r].kind)
    BY <1>t DEF Request
  <2>2. request' = [request EXCEPT ![r] = q] /\ request[r].phase = "checked" BY <1>3 DEF BeginUse
  <2> HIDE DEF q
  <2>3. q.seen \in SUBSET Tokens /\ \A u \in q.seen : Known(u, q.kind)
    BY <2>1 DEF Invalidated, Unused, Known
  <2>4. q.token \in Tokens /\ Known(q.token, q.kind) BY <2>1, <2>2, <1>h
  <2> QED BY <2>1, <2>2, <2>3, <2>4, <1>m
<1>4. ASSUME NEW r \in Requests,
             \/ LoginRead(r) \/ IssueSession(r) \/ Abandon(r)
             \/ \E k \in Kinds : Ask(r, k)
             \/ \E t \in Tokens : CommitIssue(r, t)
             \/ CommitVerify(r) \/ CommitReset(r)
      PROVE  LinksKnown'
  <2>1. PICK q : request' = [request EXCEPT ![r] = q] /\ q.phase \in {"idle", "login", "asked"}
    <3>1. Idle.phase = "idle" BY DEF Idle
    <3>2. CASE LoginRead(r)
      <4>1. [Idle EXCEPT !.phase = "login", !.password = password,
                         !.version = version].phase = "login" BY DEF Idle
      <4> QED BY <3>2, <4>1 DEF LoginRead
    <3>3. CASE \E k \in Kinds : Ask(r, k)
      <4>1. \A k \in Kinds : [Idle EXCEPT !.phase = "asked", !.kind = k].phase = "asked"
        BY DEF Idle
      <4> QED BY <3>3, <4>1 DEF Ask
    <3>4. CASE \/ IssueSession(r) \/ Abandon(r) \/ CommitVerify(r) \/ CommitReset(r)
               \/ \E t \in Tokens : CommitIssue(r, t)
      BY <3>1, <3>4 DEF IssueSession, Abandon, CommitVerify, CommitReset, CommitIssue
    <3> QED BY <1>4, <3>2, <3>3, <3>4
  <2> QED BY <2>1, <1>m
<1>5. ASSUME request' = request PROVE LinksKnown'
  <2>1. ASSUME NEW s \in Requests PROVE Holds(request[s])'
    <3>1. Holds(request[s]) BY <1>h
    <3> QED BY KnownLasts, <3>1, <1>5 DEF Known
  <2> QED BY <2>1 DEF LinksKnown
<1> QED BY <1>1, <1>2, <1>3, <1>4, <1>5 DEF Next, RequestStep, vars, Expire

LEMMA LinksKnownCorrect == Spec => []LinksKnown
<1>1. Init => LinksKnown BY DEF Init, Idle, LinksKnown
<1> QED BY <1>1, LinksKnownStep, InvCorrect, PTL DEF Spec

(* What the calls hold, as one of them moves.                              *)
LEMMA OpenedBy ==
    ASSUME TypeOK, NEW r \in Requests, NEW q, request' = [request EXCEPT ![r] = q]
    PROVE  Opened' = [Opened EXCEPT ![r] = Held(q)]
<1>1. \A s \in Requests : request'[s] = IF s = r THEN q ELSE request[s]
  BY DEF TypeOK
<1>2. \A s \in Requests : Held(request'[s]) = IF s = r THEN Held(q) ELSE Held(request[s])
  BY <1>1
<1>3. Opened' = [s \in Requests |-> Held(request'[s])]
  BY DEF Opened, Held
<1> QED BY <1>2, <1>3 DEF Opened

LEMMA OpenedStays ==
    ASSUME TypeOK, NEW r \in Requests, NEW q, request' = [request EXCEPT ![r] = q],
           Held(q) = Held(request[r])
    PROVE  Opened' = Opened
<1>1. Opened' = [Opened EXCEPT ![r] = Held(request[r])] BY OpenedBy
<1> QED BY <1>1 DEF Opened

LEMMA IdleHolds == Held(Idle) = {}
BY DEF Held, Idle

(* A call that has opened a link and ends, whatever it has done.           *)
LEMMA ClosedBy ==
    ASSUME TypeOK, NEW r \in Requests, request' = [request EXCEPT ![r] = Idle]
    PROVE  Opened' = Book!Closed(r)
BY OpenedBy, IdleHolds DEF Book!Closed

(* Sessions that are accepted were signed in with the password of now; so  *)
(* there is at most one such password.                                     *)
LEMMA SignedInCurrent ==
    ASSUME Inv PROVE SignedIn \subseteq {password}
BY DEF Inv, SessionsPaired, Paired, SignedIn, Accepted

(* A session is issued: either it is accepted, or it comes too late.       *)
LEMMA IssueSessionSignsIn ==
    ASSUME Inv, NEW r \in Requests, IssueSession(r)
    PROVE  Book!SignIn \/ UNCHANGED Book!vars
<1>1. UNCHANGED <<password, version, verified, token, notices>> BY DEF IssueSession
<1>o. UNCHANGED Opened
  <2>1. request' = [request EXCEPT ![r] = Idle] /\ Held(request[r]) = {}
    BY DEF IssueSession, Held
  <2> QED BY <2>1, OpenedStays, IdleHolds DEF Inv
<1> DEFINE j == [version |-> request[r].version, password |-> request[r].password]
<1>2. sessions' = sessions \cup {j} BY DEF IssueSession, SignInVersion
<1>3. Paired(request[r]) BY DEF IssueSession, Inv, SessionsPaired
<1>4. j.version = request[r].version /\ j.password = request[r].password OBVIOUS
<1> HIDE DEF j
<1>5. CASE j.version = version
  <2>1. j.password = password BY <1>3, <1>4, <1>5 DEF Paired
  <2>2. SignedIn' = SignedIn \cup {password} BY <1>1, <1>2, <1>5, <2>1 DEF SignedIn, Accepted
  <2>3. SignedIn' = {password} BY <2>2, SignedInCurrent
  <2> QED BY <1>1, <1>o, <2>3 DEF Book!SignIn
<1>6. CASE j.version # version
  <2>1. SignedIn' = SignedIn BY <1>1, <1>2, <1>6 DEF SignedIn, Accepted
  <2> QED BY <1>1, <1>o, <2>1 DEF Book!vars
<1> QED BY <1>5, <1>6

(* The links a call uses up, as the account sees them.                     *)
LEMMA UsedUpIsUsed ==
    ASSUME NEW S \in SUBSET Tokens
    PROVE  /\ UsedUp(NoToken, S) = Book!Used(S)
           /\ \A t : UsedUp(t, S) = Book!Used({t} \cup S)
<1>1. UsedUp(NoToken, S) = Book!Used(S) BY DEF UsedUp, Book!Used
<1>2. \A t : UsedUp(t, S) = Book!Used({t} \cup S) BY DEF UsedUp, Book!Used
<1> QED BY <1>1, <1>2

LEMMA CommitIssueIssues ==
    ASSUME Inv, LinksKnown, NEW r \in Requests, NEW t \in Tokens, CommitIssue(r, t)
    PROVE  \E k \in Kinds : Book!Issue(t, k)
<1>1. /\ request[r].phase = "issuing" /\ token[t].status = "absent"
      /\ token' = [UsedUp(NoToken, request[r].seen) EXCEPT
                     ![t] = [kind |-> request[r].kind, status |-> "unused"]]
      /\ UNCHANGED <<password, version, verified, sessions, notices>>
  BY DEF CommitIssue
<1> DEFINE k == request[r].kind
           S == request[r].seen
<1>2. k \in Kinds /\ S \in SUBSET Tokens BY DEF Inv, TypeOK, Request
<1>3. S \in Book!Others(k)
  <2>1. \A u \in S : Known(u, k) BY <1>1 DEF LinksKnown
  <2> QED BY <1>2, <2>1 DEF Book!Others, Book!Issued, Known
<1>4. token' = [Book!Used(S) EXCEPT ![t] = [kind |-> k, status |-> "unused"]]
  BY <1>1, <1>2, UsedUpIsUsed
<1>5. SignedIn' = SignedIn BY <1>1 DEF SignedIn, Accepted
<1>6. UNCHANGED Opened
  <2>1. request' = [request EXCEPT ![r] = Idle] /\ Held(request[r]) = {}
    BY DEF CommitIssue, Held
  <2> QED BY <2>1, OpenedStays, IdleHolds DEF Inv
<1> HIDE DEF k, S
<1> QED BY <1>1, <1>2, <1>3, <1>4, <1>5, <1>6 DEF Book!Issue

LEMMA CommitVerifyVerifies ==
    ASSUME Inv, LinksKnown, NEW r \in Requests, CommitVerify(r)
    PROVE  Book!Verify(r, request[r].token)
<1>1. /\ request[r].phase = "using" /\ request[r].kind = "verification"
      /\ token' = UsedUp(request[r].token, {}) /\ verified' = TRUE
      /\ UNCHANGED <<password, version, sessions, notices>>
  BY DEF CommitVerify
<1>2. Known(request[r].token, "verification") BY <1>1 DEF LinksKnown
<1>3. token' = Book!Used({request[r].token}) BY <1>1, UsedUpIsUsed
<1>4. SignedIn' = SignedIn BY <1>1 DEF SignedIn, Accepted
<1>5. request[r].token \in Opened[r] BY <1>1 DEF Opened, Held
<1>6. Opened' = Book!Closed(r) BY ClosedBy DEF CommitVerify, Inv
<1> QED BY <1>1, <1>2, <1>3, <1>4, <1>5, <1>6 DEF Book!Verify, Book!Issued, Known

(* The new version signs everybody out, and its notice is a new one.       *)
LEMMA CommitResetResets ==
    ASSUME Inv, LinksKnown, NEW r \in Requests, CommitReset(r)
    PROVE  Book!Reset(r, request[r].token)
<1>1. /\ request[r].phase = "using" /\ request[r].kind = "reset"
      /\ token' = UsedUp(request[r].token, request[r].seen)
      /\ password' = request[r].password /\ version' = version + 1
      /\ notices' = notices \cup {version + 1}
      /\ UNCHANGED <<verified, sessions>>
  BY DEF CommitReset, NoticeKey
<1>2. version \in Nat /\ request[r].seen \in SUBSET Tokens BY DEF Inv, TypeOK, Request
<1>3. Known(request[r].token, "reset") BY <1>1 DEF LinksKnown
<1>4. request[r].seen \in Book!Others("reset")
  <2>1. \A u \in request[r].seen : Known(u, "reset") BY <1>1 DEF LinksKnown
  <2> QED BY <1>2, <2>1 DEF Book!Others, Book!Issued, Known
<1>5. token' = Book!Used({request[r].token} \cup request[r].seen) BY <1>1, <1>2, UsedUpIsUsed
<1>6. password' \in Passwords BY <1>1 DEF Inv, UsesKnown
<1>7. SignedIn' = {}
  <2>1. \A s \in sessions : s.version \in Nat /\ s.version <= version
    BY DEF Inv, TypeOK, Session, SessionsPaired, Paired
  <2>2. \A s \in sessions : s.version # version + 1 BY <1>2, <2>1
  <2> QED BY <1>1, <2>2 DEF SignedIn, Accepted
<1>8. \E n \in notices' \ notices : notices' = notices \cup {n}
  <2>1. version + 1 \notin notices BY <1>2 DEF Inv, ChangesNotified
  <2> QED BY <1>1, <2>1
<1>9. request[r].token \in Opened[r] BY <1>1 DEF Opened, Held
<1>10. Opened' = Book!Closed(r) BY ClosedBy DEF CommitReset, Inv
<1> QED BY <1>1, <1>3, <1>4, <1>5, <1>6, <1>7, <1>8, <1>9, <1>10
        DEF Book!Reset, Book!Issued, Known

(* The steps of a call that change nothing but what it holds.              *)
LEMMA CallRefines ==
    ASSUME Inv, NEW r \in Requests,
           \/ LoginRead(r) \/ InvalidateActive(r) \/ BeginUse(r) \/ Abandon(r)
           \/ \E k \in Kinds : Ask(r, k)
           \/ \E t \in Tokens, p \in Passwords : OpenLink(r, t, p)
    PROVE  Book!Next \/ UNCHANGED Book!vars
<1> USE DEF Inv
<1>t. request \in [Requests -> Request] BY DEF TypeOK
<1>1. UNCHANGED <<password, version, verified, token, sessions, notices>>
  BY DEF LoginRead, InvalidateActive, BeginUse, Abandon, Ask, OpenLink
<1>2. SignedIn' = SignedIn BY <1>1 DEF SignedIn, Accepted
<1>3. ASSUME NEW q, request' = [request EXCEPT ![r] = q], Held(q) = Held(request[r])
      PROVE  UNCHANGED Book!vars
  BY <1>1, <1>2, <1>3, OpenedStays DEF Book!vars
<1>4. CASE LoginRead(r)
  <2> DEFINE q == [Idle EXCEPT !.phase = "login", !.password = password, !.version = version]
  <2>1. request' = [request EXCEPT ![r] = q] /\ request[r] = Idle BY <1>4 DEF LoginRead
  <2>2. Held(q) = {} BY DEF Held, Idle
  <2> HIDE DEF q
  <2> QED BY <1>3, <2>1, <2>2, IdleHolds
<1>5. ASSUME NEW k \in Kinds, Ask(r, k) PROVE UNCHANGED Book!vars
  <2> DEFINE q == [Idle EXCEPT !.phase = "asked", !.kind = k]
  <2>1. request' = [request EXCEPT ![r] = q] /\ request[r] = Idle BY <1>5 DEF Ask
  <2>2. Held(q) = {} BY DEF Held, Idle
  <2> HIDE DEF q
  <2> QED BY <1>3, <2>1, <2>2, IdleHolds
<1>6. CASE InvalidateActive(r)
  <2> DEFINE q == [request[r] EXCEPT !.phase = "issuing", !.seen = Unused(request[r].kind)]
  <2>1. request' = [request EXCEPT ![r] = q] /\ request[r].phase = "asked"
    BY <1>6 DEF InvalidateActive
  <2>2. q.phase = "issuing" BY <1>t DEF Request
  <2> HIDE DEF q
  <2>3. Held(q) = Held(request[r]) BY <2>1, <2>2 DEF Held
  <2> QED BY <1>3, <2>1, <2>3
<1>7. CASE BeginUse(r)
  <2> DEFINE q == [request[r] EXCEPT !.phase = "using", !.seen = Invalidated(request[r].kind)]
  <2>1. request' = [request EXCEPT ![r] = q] /\ request[r].phase = "checked"
    BY <1>7 DEF BeginUse
  <2>2. q.phase = "using" /\ q.token = request[r].token BY <1>t DEF Request
  <2> HIDE DEF q
  <2>3. Held(q) = Held(request[r]) BY <2>1, <2>2 DEF Held
  <2> QED BY <1>3, <2>1, <2>3
<1>8. CASE Abandon(r)
  <2>1. Opened' = Book!Closed(r) BY <1>8, ClosedBy DEF Abandon
  <2>2. Book!GiveUp(r) BY <1>1, <1>2, <2>1 DEF Book!GiveUp
  <2> QED BY <2>2 DEF Book!Next
<1>9. ASSUME NEW t \in Tokens, NEW p \in Passwords, OpenLink(r, t, p) PROVE Book!Next
  <2> DEFINE q == [Idle EXCEPT !.phase = "checked", !.token = t, !.kind = token[t].kind,
                               !.password = p]
  <2>1. request' = [request EXCEPT ![r] = q] /\ request[r] = Idle /\ token[t].status = "unused"
    BY <1>9 DEF OpenLink, Usable
  <2>2. Held(q) = {t} BY DEF Held, Idle
  <2> HIDE DEF q
  <2>3. Opened' = [Opened EXCEPT ![r] = {t}] BY <2>1, <2>2, OpenedBy
  <2>4. Opened[r] = {} BY <2>1, IdleHolds DEF Opened
  <2>5. Book!Open(r, t) BY <1>1, <1>2, <2>1, <2>3, <2>4 DEF Book!Open
  <2> QED BY <2>5 DEF Book!Next
<1> QED BY <1>4, <1>5, <1>6, <1>7, <1>8, <1>9

(* However calls overlap, the account is the one its owner may think of    *)
(* (verifyCredentials, requireAuthenticatedUser, resetPassword, verifyEmail*)
(* and the two requests for a link): a reset is by a link that was unused  *)
(* when its call opened it, and what happened since changes nothing else.  *)
THEOREM RefinesAccountBook == Spec => AccountBookSpec
<1>1. Init => Book!Init BY IdleHolds DEF Init, Book!Init, SignedIn, Opened
<1>2. Inv /\ LinksKnown /\ [Next]_vars => [Book!Next]_(Book!vars)
  <2> SUFFICES ASSUME Inv, LinksKnown, [Next]_vars PROVE Book!Next \/ UNCHANGED Book!vars
    OBVIOUS
  <2>1. ASSUME NEW r \in Requests, IssueSession(r) PROVE Book!Next \/ UNCHANGED Book!vars
    BY <2>1, IssueSessionSignsIn DEF Book!Next
  <2>2. ASSUME NEW r \in Requests, NEW t \in Tokens, CommitIssue(r, t) PROVE Book!Next
    BY <2>2, CommitIssueIssues DEF Book!Next, Kinds
  <2>3. ASSUME NEW r \in Requests, CommitVerify(r) PROVE Book!Next
    <3>1. request[r].token \in Tokens BY <2>3 DEF CommitVerify, Inv, UsesKnown
    <3> QED BY <2>3, <3>1, CommitVerifyVerifies DEF Book!Next
  <2>4. ASSUME NEW r \in Requests, CommitReset(r) PROVE Book!Next
    <3>1. request[r].token \in Tokens BY <2>4 DEF CommitReset, Inv, UsesKnown
    <3> QED BY <2>4, <3>1, CommitResetResets DEF Book!Next
  <2>5. ASSUME UNCHANGED <<password, version, verified, token, sessions, notices, request>>
        PROVE  UNCHANGED Book!vars
    BY <2>5 DEF Book!vars, SignedIn, Accepted, Opened, Held
  <2>6. CASE (\E t \in Tokens : Expire(t)) \/ UNCHANGED vars
    BY <2>5, <2>6 DEF Expire, vars
  <2> QED
    BY <2>1, <2>2, <2>3, <2>4, <2>6, CallRefines DEF Next, RequestStep
<1> QED BY <1>1, <1>2, InvCorrect, LinksKnownCorrect, PTL DEF Spec, AccountBookSpec, Book!Spec
==============================================================================
