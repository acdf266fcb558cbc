----------------------- MODULE RefreshSessionsProofs -----------------------
(***************************************************************************)
(* Proofs about RefreshSessions, for any sets of users, tokens and         *)
(* concurrent requests, and about Access, for any accounts, sign-ins,      *)
(* access tokens and sockets.  The two modules share no variable: each     *)
(* theorem is about the specification of one of them.                      *)
(***************************************************************************)
EXTENDS RefreshSessions, Access, FiniteSetTheorems, TLAPS

\* Every step leaves the table of sessions alone, inserts one row, or sets
\* revoked_at and replaced_by_id of rows that exist.
LEMMA IssuedGrows ==
  ASSUME TypeOK, [Next]_vars
  PROVE  /\ Issued \subseteq Issued'
         /\ \A t \in Issued : family'[t] = family[t] /\ owner'[t] = owner[t]
<1> USE NoneAssumption DEF TypeOK, Issued
<1>1. ASSUME NEW r \in Requests, NEW n \in Tokens, OpenSession(r, n)
      PROVE  /\ Issued \subseteq Issued'
             /\ \A t \in Issued : family'[t] = family[t] /\ owner'[t] = owner[t]
  BY <1>1 DEF OpenSession
<1>2. ASSUME NEW r \in Requests, NEW n \in Tokens, Rotate(r, n)
      PROVE  /\ Issued \subseteq Issued'
             /\ \A t \in Issued : family'[t] = family[t] /\ owner'[t] = owner[t]
  BY <1>2 DEF Rotate
<1>3. CASE UNCHANGED <<owner, family>>
  BY <1>3
<1> QED
  BY <1>1, <1>2, <1>3 DEF Next, vars, rows, SignInCheck, LookupReused,
     LookupUsable, CheckUser, LookupLogout, RevokeFamily, RequestDies,
     SuspendSweep, SuspendCommit, Activate, SuspendRollsBack, Expire

-----------------------------------------------------------------------------
(* Types.                                                                  *)

LEMMA TypeInit == Init => TypeOK
BY NoneAssumption DEF Init, TypeOK, Issued, Idle

LEMMA TypeStep ==
  ASSUME TypeOK, [Next]_vars
  PROVE  TypeOK'
<1> USE NoneAssumption DEF TypeOK
<1>0. Issued \subseteq Issued'
  BY IssuedGrows
<1>1. ASSUME NEW r \in Requests, NEW u \in Users, SignInCheck(r, u)
      PROVE  TypeOK'
  BY <1>1 DEF SignInCheck, rows, Issued
<1>2. ASSUME NEW r \in Requests, NEW n \in Tokens, OpenSession(r, n)
      PROVE  TypeOK'
  BY <1>0, <1>2 DEF OpenSession, Answer, Idle, Issued
<1>3. ASSUME NEW r \in Requests, NEW t \in Tokens, LookupReused(r, t)
      PROVE  TypeOK'
  BY <1>3 DEF LookupReused, rows, Issued
<1>4. ASSUME NEW r \in Requests, NEW t \in Tokens, LookupUsable(r, t)
      PROVE  TypeOK'
  BY <1>4 DEF LookupUsable, rows, Issued
<1>5. ASSUME NEW r \in Requests, CheckUser(r)
      PROVE  TypeOK'
  BY <1>5 DEF CheckUser, Go, Answer, Idle, rows, Issued
<1>6. ASSUME NEW r \in Requests, NEW n \in Tokens, Rotate(r, n)
      PROVE  TypeOK'
  <2>1. req[r].token \in Issued /\ req[r].token \in Tokens
    BY <1>6 DEF Rotate, Issued
  <2>2. owner' \in [Tokens -> Users \cup {None}]
    BY <1>6, <2>1 DEF Rotate
  <2>3. /\ family' \in [Tokens -> Tokens \cup {None}]
        /\ replacedBy' \in [Tokens -> Tokens \cup {None}]
        /\ \A t \in Tokens \ Issued' : replacedBy'[t] = None
    BY <1>0, <1>6, <2>1 DEF Rotate
  <2>4. revoked' \subseteq Issued' /\ expired' \subseteq Issued'
    BY <1>0, <1>6, <2>1 DEF Rotate
  <2>5. victims' \in [Users -> SUBSET (Issued')]
    BY <1>0, <1>6 DEF Rotate
  <2>6. req' \in [Requests ->
           [pc : {"idle", "opening", "checking", "rotating", "revoking"},
            token : Issued' \cup {None}, user : Users \cup {None}]]
    BY <1>0, <1>6 DEF Rotate, Answer, Idle
  <2> QED
    BY <1>6, <2>2, <2>3, <2>4, <2>5, <2>6 DEF Rotate, Answer, Idle
<1>7. ASSUME NEW r \in Requests, NEW t \in Tokens, LookupLogout(r, t)
      PROVE  TypeOK'
  BY <1>7 DEF LookupLogout, rows, Issued
<1>8. ASSUME NEW r \in Requests, RevokeFamily(r)
      PROVE  TypeOK'
  BY <1>8 DEF RevokeFamily, Family, Answer, Idle, Issued
<1>9. ASSUME NEW r \in Requests, RequestDies(r)
      PROVE  TypeOK'
  BY <1>9 DEF RequestDies, Answer, Idle, rows, Issued
<1>10. ASSUME NEW u \in Users, SuspendSweep(u)
       PROVE  TypeOK'
  BY <1>10 DEF SuspendSweep, rows, Issued
<1>11. ASSUME NEW u \in Users, SuspendCommit(u)
       PROVE  TypeOK'
  BY <1>11 DEF SuspendCommit, Issued
<1>12. ASSUME NEW u \in Users, Activate(u)
       PROVE  TypeOK'
  BY <1>12 DEF Activate, rows, Issued
<1>13. ASSUME NEW u \in Users, SuspendRollsBack(u)
       PROVE  TypeOK'
  BY <1>13 DEF SuspendRollsBack, rows, Issued
<1>14. ASSUME NEW t \in Tokens, Expire(t)
       PROVE  TypeOK'
  BY <1>14 DEF Expire, rows, Issued
<1>15. CASE UNCHANGED vars
  BY <1>15 DEF vars, rows, Issued
<1> QED
  BY <1>1, <1>2, <1>3, <1>4, <1>5, <1>6, <1>7, <1>8, <1>9, <1>10, <1>11,
     <1>12, <1>13, <1>14, <1>15 DEF Next

\* The tables and every handler's memory stay well typed: in particular no
\* handler ever holds the token of a row that does not exist.
THEOREM TypeCorrect == Spec => []TypeOK
BY TypeInit, TypeStep, PTL DEF Spec

-----------------------------------------------------------------------------
(* Chains of rotated sessions.                                             *)

LEMMA ChainStep ==
  ASSUME TypeOK, TypeOK', ChainSound, [Next]_vars
  PROVE  ChainSound'
<1> USE NoneAssumption DEF TypeOK, ChainSound
<1>0. /\ Issued \subseteq Issued'
      /\ \A t \in Issued : family'[t] = family[t] /\ owner'[t] = owner[t]
  BY IssuedGrows
<1>1. ASSUME NEW r \in Requests, NEW n \in Tokens, OpenSession(r, n)
      PROVE  ChainSound'
  BY <1>0, <1>1 DEF OpenSession, Issued
<1>2. ASSUME NEW r \in Requests, NEW n \in Tokens, Rotate(r, n)
      PROVE  ChainSound'
  <2> DEFINE old == req[r].token
  <2>1. old \in Issued /\ n \notin Issued /\ Issued' = Issued \cup {n}
    BY <1>2 DEF Rotate, Issued
  <2>2. ASSUME NEW t \in Issued'
        PROVE  family'[t] \in Issued' /\ owner'[t] = owner'[family'[t]]
    BY <1>0, <1>2, <2>1 DEF Rotate, Issued
  <2>3. \A s \in Issued' :
          /\ replacedBy'[s] \in Issued' \cup {None}
          /\ replacedBy'[s] = n <=> s = old
          /\ s # old => replacedBy'[s] = replacedBy[s]
    BY <1>2, <2>1 DEF Rotate, Issued
  <2>4. ASSUME NEW t \in Issued', replacedBy'[t] # None
        PROVE  /\ t \in revoked'
               /\ replacedBy'[t] \in Issued' \ {family'[t]}
               /\ family'[replacedBy'[t]] = family'[t]
    <3>1. CASE t = old
      BY <1>0, <1>2, <2>1, <2>3, <3>1 DEF Rotate, Issued
    <3>2. CASE t # old
      <4>1. t \in Issued /\ replacedBy'[t] = replacedBy[t]
        BY <1>2, <2>1, <2>3, <2>4, <3>2 DEF Rotate, Issued
      <4> QED
        BY <1>0, <1>2, <2>4, <4>1 DEF Rotate
    <3> QED
      BY <3>1, <3>2
  <2>5. ASSUME NEW t \in Issued', NEW s \in Issued',
               replacedBy'[s] = replacedBy'[t], replacedBy'[t] # None
        PROVE  s = t
    <3>1. CASE s = old \/ t = old
      BY <2>3, <2>5, <3>1
    <3>2. CASE s # old /\ t # old
      <4>1. t \in Issued /\ s \in Issued
        BY <1>2, <2>1, <2>3, <2>5, <3>2 DEF Rotate, Issued
      <4> QED
        BY <2>3, <2>5, <3>2, <4>1
    <3> QED
      BY <3>1, <3>2
  <2> QED
    BY <2>2, <2>4, <2>5
<1>3. ASSUME UNCHANGED <<owner, family, replacedBy>>, revoked \subseteq revoked'
      PROVE  ChainSound'
  BY <1>3 DEF Issued
<1> QED
  BY <1>1, <1>2, <1>3 DEF Next, vars, rows, SignInCheck, LookupReused,
     LookupUsable, CheckUser, LookupLogout, RevokeFamily, RequestDies,
     SuspendSweep, SuspendCommit, Activate, SuspendRollsBack, Expire

\* However refreshes, logouts and suspensions overlap, a session that was
\* exchanged is revoked, and its successor is one row of its own family.
THEOREM ChainCorrect == Spec => []ChainSound
<1>1. Init => ChainSound
  BY NoneAssumption DEF Init, ChainSound, Issued
<1> QED
  BY <1>1, ChainStep, TypeStep, TypeCorrect, PTL DEF Spec

-----------------------------------------------------------------------------
(* How many sessions of a family can be live.                              *)

\* The table holds finitely many rows at any time, however many tokens exist.
FiniteTable == IsFiniteSet(Issued)

LEMMA TableStep ==
  ASSUME TypeOK, FiniteTable, [Next]_vars
  PROVE  FiniteTable'
<1> USE DEF FiniteTable
<1>1. ASSUME NEW n \in Tokens, Issued' \subseteq Issued \cup {n}
      PROVE  FiniteTable'
  BY <1>1, FS_AddElement, FS_Subset
<1>2. ASSUME NEW r \in Requests, NEW n \in Tokens, OpenSession(r, n)
      PROVE  FiniteTable'
  BY <1>1, <1>2 DEF OpenSession, TypeOK, Issued
<1>3. ASSUME NEW r \in Requests, NEW n \in Tokens, Rotate(r, n)
      PROVE  FiniteTable'
  BY <1>1, <1>3 DEF Rotate, TypeOK, Issued
<1>4. CASE UNCHANGED family
  BY <1>4 DEF Issued
<1> QED
  BY <1>2, <1>3, <1>4 DEF Next, vars, rows, SignInCheck, LookupReused,
     LookupUsable, CheckUser, LookupLogout, RevokeFamily, RequestDies,
     SuspendSweep, SuspendCommit, Activate, SuspendRollsBack, Expire

\* The rows of a family are its first row, the rows no link leads to, and the
\* successors, of which there are at most as many as exchanged rows.  So the
\* rows never exchanged, and the live ones are among them, are at most one more
\* than the rows no link leads to.
LEMMA ForkBound ==
  ASSUME TypeOK, ChainSound, FiniteTable, NEW f \in Tokens
  PROVE  Cardinality({t \in Family(f) : Live(t)}) <= 1 + Cardinality(Orphans(f))
<1> DEFINE F == Family(f)
           L == {t \in F : Live(t)}
           Old == {t \in F : replacedBy[t] # None}
           Succ == {replacedBy[t] : t \in Old}
           O == Orphans(f)
           link == [t \in Old |-> replacedBy[t]]
<1> HIDE DEF O, L, F, Old, Succ, link
<1>1. F \subseteq Issued /\ IsFiniteSet(F)
  <2>1. F \subseteq Issued
    BY NoneAssumption DEF F, Family, Issued
  <2> QED
    BY <2>1, FS_Subset DEF FiniteTable
<1>2. /\ IsFiniteSet(L) /\ IsFiniteSet(Old) /\ IsFiniteSet(O)
      /\ Cardinality(F) \in Nat /\ Cardinality(L) \in Nat
      /\ Cardinality(Old) \in Nat /\ Cardinality(O) \in Nat
  <2>1. L \subseteq F /\ Old \subseteq F /\ O \subseteq F
    BY DEF L, Old, O, Orphans, F
  <2>2. IsFiniteSet(L) /\ IsFiniteSet(Old) /\ IsFiniteSet(O)
    BY <1>1, <2>1, FS_Subset
  <2> QED
    BY <1>1, <2>2, FS_CardinalityType
<1>3. IsFiniteSet(Succ) /\ Cardinality(Succ) <= Cardinality(Old)
  <2>1. link \in Surjection(Old, Succ)
    BY DEF link, Succ, Surjection
  <2> QED
    BY <1>2, <2>1, FS_Surjection
<1>4. Cardinality(Succ) \in Nat
  BY <1>3, FS_CardinalityType
<1>5. F \subseteq ({f} \cup O) \cup Succ
  <2> SUFFICES ASSUME NEW t \in F, t # f, t \notin O
               PROVE  t \in Succ
    OBVIOUS
  <2>1. PICK s \in Tokens : replacedBy[s] = t
    BY DEF O, Orphans, F
  <2>2. t \in Tokens /\ t # None /\ family[t] = f
    BY NoneAssumption DEF F, Family
  <2>3. s \in Issued
    BY <2>1, <2>2 DEF TypeOK
  <2>4. family[s] = f
    BY <2>1, <2>2, <2>3 DEF ChainSound
  <2> QED
    BY <2>1, <2>2, <2>4, NoneAssumption DEF Succ, Old, F, Family
<1>6. Cardinality(F) <= 1 + Cardinality(O) + Cardinality(Succ)
  <2>1. /\ IsFiniteSet({f} \cup O) /\ Cardinality({f} \cup O) \in Nat
        /\ Cardinality({f} \cup O) <= 1 + Cardinality(O)
    <3>1. {f} \cup O = O \cup {f}
      OBVIOUS
    <3>2. /\ IsFiniteSet(O \cup {f})
          /\ Cardinality(O \cup {f}) =
               IF f \in O THEN Cardinality(O) ELSE Cardinality(O) + 1
      BY <1>2, FS_AddElement
    <3> QED
      BY <1>2, <3>1, <3>2
  <2>2. /\ IsFiniteSet(({f} \cup O) \cup Succ)
        /\ Cardinality(({f} \cup O) \cup Succ) \in Nat
        /\ Cardinality(({f} \cup O) \cup Succ)
             <= Cardinality({f} \cup O) + Cardinality(Succ)
    <3>1. IsFiniteSet(({f} \cup O) \cap Succ)
      BY <2>1, FS_Intersection
    <3>2. Cardinality(({f} \cup O) \cap Succ) \in Nat
      BY <3>1, FS_CardinalityType
    <3>3. /\ IsFiniteSet(({f} \cup O) \cup Succ)
          /\ Cardinality(({f} \cup O) \cup Succ)
               = Cardinality({f} \cup O) + Cardinality(Succ)
                 - Cardinality(({f} \cup O) \cap Succ)
      BY <1>3, <2>1, FS_Union
    <3>4. Cardinality(({f} \cup O) \cup Succ) \in Nat
      BY <3>3, FS_CardinalityType
    <3> QED
      BY <1>4, <2>1, <3>2, <3>3, <3>4
  <2>3. Cardinality(F) <= Cardinality(({f} \cup O) \cup Succ)
    BY <1>5, <2>2, FS_Subset
  <2> QED
    BY <1>2, <1>4, <2>1, <2>2, <2>3
<1>7. Cardinality(L) + Cardinality(Old) <= Cardinality(F)
  <2>1. L \cap Old = {}
    BY <1>1 DEF L, Old, Live, ChainSound
  <2>2. L \cup Old \subseteq F
    BY DEF L, Old
  <2>3. Cardinality(L \cup Old) = Cardinality(L) + Cardinality(Old)
    BY <1>2, <2>1, FS_Union, FS_EmptySet
  <2> QED
    BY <1>1, <2>2, <2>3, FS_Subset
<1>8. Cardinality(L) <= 1 + Cardinality(O)
  BY <1>2, <1>3, <1>6, <1>7, <1>4
<1> QED
  BY <1>8 DEF L, O, F

\* Whatever refreshes of one token overlap, a family holds at most one live
\* session more than the links that those refreshes overwrote
\* (refresh-token.service.ts:27-80).
THEOREM ForksBoundLiveSessions == Spec => []LiveSessionsBoundedByForks
<1>1. Init => FiniteTable
  <2>1. Init => Issued = {}
    BY DEF Init, Issued
  <2> QED
    BY <2>1, FS_EmptySet DEF FiniteTable
<1>2. TypeOK /\ ChainSound /\ FiniteTable => LiveSessionsBoundedByForks
  BY ForkBound DEF LiveSessionsBoundedByForks
<1> QED
  BY <1>1, <1>2, TableStep, TypeCorrect, ChainCorrect, PTL DEF Spec

-----------------------------------------------------------------------------
(* Families that ended.                                                    *)

LEMMA EndedStep ==
  ASSUME TypeOK, [Next]_vars, NEW f \in Tokens, Ended(f)
  PROVE  Ended(f)'
<1> USE NoneAssumption DEF TypeOK, Ended, Live, Family
<1>0. /\ Issued \subseteq Issued'
      /\ \A t \in Issued : family'[t] = family[t] /\ owner'[t] = owner[t]
  BY IssuedGrows
<1>1. ASSUME NEW r \in Requests, NEW u \in Users, SignInCheck(r, u)
      PROVE  Ended(f)'
  BY <1>1 DEF SignInCheck, rows, Issued
<1>2. ASSUME NEW r \in Requests, NEW n \in Tokens, OpenSession(r, n)
      PROVE  Ended(f)'
  BY <1>0, <1>2 DEF OpenSession, Answer, Idle, Issued
<1>3. ASSUME NEW r \in Requests, NEW t \in Tokens, LookupReused(r, t)
      PROVE  Ended(f)'
  BY <1>3 DEF LookupReused, rows, Issued
<1>4. ASSUME NEW r \in Requests, NEW t \in Tokens, LookupUsable(r, t)
      PROVE  Ended(f)'
  BY <1>4 DEF LookupUsable, IsRefreshReusable, rows, Issued
<1>5. ASSUME NEW r \in Requests, CheckUser(r)
      PROVE  Ended(f)'
  BY <1>5 DEF CheckUser, Go, Answer, Idle, rows, Issued
<1>6. ASSUME NEW r \in Requests, NEW n \in Tokens, Rotate(r, n)
      PROVE  Ended(f)'
  <2>1. /\ req[r].token \in Issued
        /\ family[req[r].token] # f
    BY <1>6 DEF Rotate, Issued
  <2>2. family'[n] # f
    BY <1>6, <2>1 DEF Rotate
  <2> QED
    BY <1>0, <1>6, <2>1, <2>2 DEF Rotate, Answer, Idle, Issued
<1>7. ASSUME NEW r \in Requests, NEW t \in Tokens, LookupLogout(r, t)
      PROVE  Ended(f)'
  BY <1>7 DEF LookupLogout, rows, Issued
<1>8. ASSUME NEW r \in Requests, RevokeFamily(r)
      PROVE  Ended(f)'
  BY <1>8 DEF RevokeFamily, Answer, Idle, Issued
<1>9. ASSUME NEW r \in Requests, RequestDies(r)
      PROVE  Ended(f)'
  BY <1>9 DEF RequestDies, Answer, Idle, rows, Issued
<1>10. ASSUME UNCHANGED <<family, req>>, revoked \subseteq revoked',
              expired \subseteq expired'
       PROVE  Ended(f)'
  BY <1>10 DEF Issued
<1> QED
  BY <1>1, <1>2, <1>3, <1>4, <1>5, <1>6, <1>7, <1>8, <1>9, <1>10 DEF Next,
     vars, rows, SuspendSweep, SuspendCommit, Activate, SuspendRollsBack, Expire

\* Logout, detected reuse, suspension and expiry end a family for good once the
\* refreshes that overlapped them have answered.
THEOREM EndedIsStable == Spec => EndedFamilyStaysEnded
<1>1. ASSUME TypeOK, [Next]_vars
      PROVE  [\A f \in Tokens : Ended(f) => Ended(f)']_vars
  BY <1>1, EndedStep
<1> QED
  BY <1>1, TypeCorrect, PTL DEF Spec, EndedFamilyStaysEnded

-----------------------------------------------------------------------------
(* Suspended accounts.                                                     *)

LEMMA LockedOutStep ==
  ASSUME TypeOK, [Next]_vars, NEW u \in Users, LockedOut(u),
         status'[u] = "INACTIVE"
  PROVE  LockedOut(u)'
<1> USE NoneAssumption DEF TypeOK, LockedOut, Live
<1>0. /\ Issued \subseteq Issued'
      /\ \A t \in Issued : family'[t] = family[t] /\ owner'[t] = owner[t]
  BY IssuedGrows
<1>1. ASSUME NEW r \in Requests, NEW v \in Users, SignInCheck(r, v)
      PROVE  LockedOut(u)'
  BY <1>1 DEF SignInCheck, rows, Issued
<1>2. ASSUME NEW r \in Requests, NEW n \in Tokens, OpenSession(r, n)
      PROVE  LockedOut(u)'
  BY <1>0, <1>2 DEF OpenSession, Answer, Idle, Issued
<1>3. ASSUME NEW r \in Requests, NEW t \in Tokens, LookupReused(r, t)
      PROVE  LockedOut(u)'
  BY <1>3 DEF LookupReused, rows, Issued
<1>4. ASSUME NEW r \in Requests, NEW t \in Tokens, LookupUsable(r, t)
      PROVE  LockedOut(u)'
  BY <1>4 DEF LookupUsable, rows, Issued
<1>5. ASSUME NEW r \in Requests, CheckUser(r)
      PROVE  LockedOut(u)'
  BY <1>5 DEF CheckUser, Go, Answer, Idle, rows, Issued
<1>6. ASSUME NEW r \in Requests, NEW n \in Tokens, Rotate(r, n)
      PROVE  LockedOut(u)'
  <2>1. /\ req[r].token \in Issued
        /\ owner[req[r].token] # u
    BY <1>6 DEF Rotate, Issued
  <2>2. owner'[n] # u
    BY <1>6, <2>1 DEF Rotate
  <2> QED
    BY <1>0, <1>6, <2>1, <2>2 DEF Rotate, Answer, Idle, Issued
<1>7. ASSUME NEW r \in Requests, NEW t \in Tokens, LookupLogout(r, t)
      PROVE  LockedOut(u)'
  BY <1>7 DEF LookupLogout, rows, Issued
<1>8. ASSUME NEW r \in Requests, RevokeFamily(r)
      PROVE  LockedOut(u)'
  BY <1>8 DEF RevokeFamily, Answer, Idle, Issued
<1>9. ASSUME NEW r \in Requests, RequestDies(r)
      PROVE  LockedOut(u)'
  BY <1>9 DEF RequestDies, Answer, Idle, rows, Issued
<1>10. ASSUME UNCHANGED <<owner, family, req>>, revoked \subseteq revoked',
              expired \subseteq expired'
       PROVE  LockedOut(u)'
  BY <1>10 DEF Issued
<1> QED
  BY <1>1, <1>2, <1>3, <1>4, <1>5, <1>6, <1>7, <1>8, <1>9, <1>10 DEF Next,
     vars, rows, SuspendSweep, SuspendCommit, Activate, SuspendRollsBack, Expire

\* A suspended account with no live session and no request past its status test
\* stays without one until it is reactivated.
THEOREM SuspensionIsStable == Spec => SuspensionHolds
<1>1. ASSUME TypeOK, [Next]_vars
      PROVE  [\A u \in Users :
                LockedOut(u) /\ status'[u] = "INACTIVE" => LockedOut(u)']_vars
  BY <1>1, LockedOutStep
<1> QED
  BY <1>1, TypeCorrect, PTL DEF Spec, SuspensionHolds

-----------------------------------------------------------------------------
(* Access: what the tokens that a session yields let their holder do.        *)

LEMMA AccessTypeStep ==
  ASSUME AccessTypeOK, [AccessNext]_accessVars
  PROVE  AccessTypeOK'
<1> USE AccessAssumption DEF AccessTypeOK, account, sockets
<1>0. \A u \in Accounts, pc \in {"writing", "issuing"} : Read(pc, u) \in Grants
  BY DEF Read, Grants, Roles, AuthRoles
<1>1. ASSUME NEW r \in SignIns, NEW u \in Accounts,
             StartGrant(r, u) \/ BeginCodeSignIn(r, u)
      PROVE  AccessTypeOK'
  BY <1>0, <1>1 DEF StartGrant, BeginCodeSignIn
<1>2. ASSUME NEW r \in SignIns, NEW t \in AccessTokens, Issue(r, t)
      PROVE  AccessTypeOK'
  <2>1. [user |-> grant[r].user, roles |-> grant[r].roles] \in Claims
    BY <1>2 DEF Issue, Grants, Claims
  <2> QED
    BY <1>2, <2>1 DEF Issue
<1>11. ASSUME NEW r \in SignIns, WritePin(r) \/ GrantFails(r)
       PROVE  AccessTypeOK'
  <2>1. grant[r].user \in Accounts
    BY <1>11 DEF WritePin, GrantFails, Grants
  <2> QED
    BY <1>0, <1>11, <2>1 DEF WritePin, GrantFails
<1>3. ASSUME NEW t \in AccessTokens, ExpireToken(t)
      PROVE  AccessTypeOK'
  BY <1>3 DEF ExpireToken
<1>4. ASSUME NEW t \in AccessTokens, PatchMe(t)
      PROVE  AccessTypeOK'
  BY <1>4 DEF PatchMe, Authenticated, Claims
<1>5. ASSUME NEW t \in AccessTokens, NEW u \in Accounts,
             SuspendAccount(t, u) \/ ActivateAccount(t, u)
      PROVE  AccessTypeOK'
  BY <1>5 DEF SuspendAccount, ActivateAccount
<1>6. ASSUME NEW s \in Sockets, NEW t \in AccessTokens, BeginHandshake(s, t)
      PROVE  AccessTypeOK'
  BY <1>6 DEF BeginHandshake, Authenticated, Claims
<1>7. ASSUME NEW s \in Sockets, VerifyOk(s)
      PROVE  AccessTypeOK'
  BY <1>7 DEF VerifyOk, Closed
<1>8. ASSUME NEW s \in Sockets,
             VerifyFails(s) \/ OnConnection(s) \/ Leave(s) \/ Disconnect(s)
      PROVE  AccessTypeOK'
  BY <1>8 DEF VerifyFails, OnConnection, Leave, Disconnect, Closed
<1>9. CASE Restart
  BY <1>9 DEF Restart, Closed
<1>10. CASE UNCHANGED accessVars
  BY <1>10 DEF accessVars
<1> QED
  BY <1>1, <1>2, <1>3, <1>4, <1>5, <1>6, <1>7, <1>8, <1>9, <1>10, <1>11
     DEF AccessNext

\* A socket whose client left before it was admitted is remembered as broken: its
\* verification may still note a user for it.
SocketsSound ==
  /\ SocketsAreForgotten
  /\ \A s \in Sockets : sock[s].pc = "left" => s \in broken

LEMMA SocketsStep ==
  ASSUME SocketsSound, [AccessNext]_accessVars
  PROVE  SocketsSound'
<1> USE DEF SocketsSound, SocketsAreForgotten
<1>0. AccessTypeOK'
  BY AccessTypeStep
<1>1. ASSUME NEW s \in Sockets, NEW t \in AccessTokens, BeginHandshake(s, t)
      PROVE  SocketsSound'
  BY <1>0, <1>1 DEF BeginHandshake, Closed, AccessTypeOK
<1>2. ASSUME NEW s \in Sockets, VerifyFails(s)
      PROVE  SocketsSound'
  BY <1>0, <1>2 DEF VerifyFails, Closed, AccessTypeOK
<1>3. ASSUME NEW s \in Sockets, VerifyOk(s)
      PROVE  SocketsSound'
  BY <1>0, <1>3 DEF VerifyOk, Closed, AccessTypeOK
<1>4. ASSUME NEW s \in Sockets, OnConnection(s)
      PROVE  SocketsSound'
  BY <1>0, <1>4 DEF OnConnection, AccessTypeOK
<1>5. ASSUME NEW s \in Sockets, Leave(s)
      PROVE  SocketsSound'
  BY <1>0, <1>5 DEF Leave, Closed, AccessTypeOK
<1>6. ASSUME NEW s \in Sockets, Disconnect(s)
      PROVE  SocketsSound'
  BY <1>0, <1>6 DEF Disconnect, Closed, AccessTypeOK
<1>7. CASE Restart
  BY <1>0, <1>7 DEF Restart, Closed
<1>8. CASE UNCHANGED sockets
  BY <1>0, <1>8 DEF sockets
<1> QED
  BY <1>1, <1>2, <1>3, <1>4, <1>5, <1>6, <1>7, <1>8 DEF AccessNext, accessVars,
     StartGrant, BeginCodeSignIn, WritePin, GrantFails, Issue, ExpireToken, PatchMe,
     SuspendAccount, ActivateAccount

\* The maps of the gateway and of the publisher hold the open sockets, and beyond
\* them only sockets whose client left during the handshake
\* (chat-realtime.gateway.ts:51-92).
THEOREM SocketsForgotten == AccessSpec => []SocketsAreForgotten
<1>1. AccessInit => SocketsSound
  BY AccessAssumption DEF AccessInit, Closed, AccessTypeOK, SocketsSound,
     SocketsAreForgotten
<1>2. SocketsSound => SocketsAreForgotten
  BY DEF SocketsSound
<1> QED
  BY <1>1, <1>2, SocketsStep, PTL DEF AccessSpec

LEMMA OutStep ==
  ASSUME AccessTypeOK, [AccessNext]_accessVars, NEW u \in Accounts,
         accountStatus[u] = "INACTIVE", Out(u)
  PROVE  Out(u)' /\ SocketsOf(u)' \subseteq SocketsOf(u)
<1> USE DEF AccessTypeOK
<1>0. /\ \A t \in AccessTokens : token[t] # Nobody => token[t].user # u
      /\ \A r \in SignIns : grant[r] # Nobody => grant[r].user # u
  BY DEF Out, InFlight
\* What is to be shown, of requests, tokens and sockets.
<1> DEFINE NoGrant == \A r \in SignIns : grant'[r] # Nobody => grant'[r].user # u
           NoToken == \A t \in AccessTokens : token'[t] # Nobody => token'[t].user # u
           NoSocket == \A s \in Sockets :
             sock'[s].pc # "closed" /\ sock'[s].user = u
               => sock[s].pc # "closed" /\ sock[s].user = u
<1> SUFFICES NoGrant /\ NoToken /\ NoSocket
  BY DEF Out, InFlight, SocketsOf
<1>1. ASSUME NEW r \in SignIns, NEW v \in Accounts,
             StartGrant(r, v) \/ BeginCodeSignIn(r, v)
      PROVE  NoGrant /\ NoToken /\ NoSocket
  BY <1>0, <1>1 DEF StartGrant, BeginCodeSignIn, Read, sockets
<1>2. ASSUME NEW r \in SignIns, WritePin(r) \/ GrantFails(r)
      PROVE  NoGrant /\ NoToken /\ NoSocket
  BY <1>0, <1>2 DEF WritePin, GrantFails, Read, sockets
<1>3. ASSUME NEW r \in SignIns, NEW t \in AccessTokens, Issue(r, t)
      PROVE  NoGrant /\ NoToken /\ NoSocket
  BY <1>0, <1>3 DEF Issue, sockets
<1>4. ASSUME NEW t \in AccessTokens, ExpireToken(t)
      PROVE  NoGrant /\ NoToken /\ NoSocket
  BY <1>0, <1>4 DEF ExpireToken, sockets
<1>5. ASSUME NEW s \in Sockets, NEW t \in AccessTokens, BeginHandshake(s, t)
      PROVE  NoGrant /\ NoToken /\ NoSocket
  BY <1>0, <1>5 DEF BeginHandshake, Authenticated
<1>6. ASSUME NEW s \in Sockets,
             \/ VerifyOk(s) \/ VerifyFails(s) \/ OnConnection(s)
             \/ Leave(s) \/ Disconnect(s)
      PROVE  NoGrant /\ NoToken /\ NoSocket
  BY <1>0, <1>6 DEF VerifyOk, VerifyFails, OnConnection, Leave, Disconnect, Closed
<1>7. CASE Restart
  BY <1>0, <1>7 DEF Restart, Closed
<1>8. CASE UNCHANGED <<grant, token, sockets>>
  BY <1>0, <1>8 DEF sockets
<1> QED
  BY <1>1, <1>2, <1>3, <1>4, <1>5, <1>6, <1>7, <1>8 DEF AccessNext, accessVars, PatchMe,
     SuspendAccount, ActivateAccount

\* However sign-ins of all three kinds, expiries, handshakes and changes of accounts
\* interleave, a suspended account that is out stays out until it is reactivated
\* (login.service.ts:38-69, refresh-token.service.ts:53-78,
\* identity.repository.ts:213-245).
THEOREM SuspendedStaysOut == AccessSpec => OutStaysOut
<1>1. AccessInit => AccessTypeOK
  BY AccessAssumption DEF AccessInit, Closed, AccessTypeOK
<1>2. ASSUME AccessTypeOK, [AccessNext]_accessVars
      PROVE  [\A u \in Accounts :
                accountStatus[u] = "INACTIVE" /\ Out(u) =>
                  Out(u)' /\ SocketsOf(u)' \subseteq SocketsOf(u)]_accessVars
  BY <1>2, OutStep
<1> QED
  BY <1>1, <1>2, AccessTypeStep, PTL DEF AccessSpec, OutStaysOut
=============================================================================
