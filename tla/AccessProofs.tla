---------------------------- MODULE AccessProofs -----------------------------
(***************************************************************************)
(* Who may come in and what they may change: proofs about the members and  *)
(* their invitations, the sign-in with its second factor and its budget,   *)
(* a developer's links and sessions, the developer password, and the       *)
(* settings behind it.  Each part states its inductive invariant, shows    *)
(* that every step keeps it, and ends with the theorem a run checks.  The  *)
(* budgets of the sign-in and of the gate are shown to hold side by side   *)
(* in the specification that runs both.                                    *)
(***************************************************************************)
EXTENDS MCAccess, WellFoundedInduction, FiniteSetTheorems, TLAPS
-----------------------------------------------------------------------------
(* Members.                                                                *)

PostFields == {"op", "at", "actor", "target", "role", "temp", "left", "owners", "current", "held"}

\* What a request knows of the rows it has locked is so until it ends.
PostOK(q, r) ==
  /\ DOMAIN r = PostFields
  /\ r.at \in {"asked", "locking", "cleared"} =>
       /\ r.target \in People
       /\ r.op = "add" => r.target \in accounts
       /\ r.op = "remove" => r.role = "none"
  /\ r.at \notin {"locking", "cleared"} => \A p \in People : rowLock[p] # q
  /\ r.at = "asked" => r.owners = {}
  /\ r.at = "locking" => r.left \subseteq People
  /\ r.at \in {"locking", "cleared"} =>
       /\ r.owners = {p \in People : rowLock[p] = q /\ role[p] = "owner"}
       /\ rowLock[r.target] = q => r.current = role[r.target]
  /\ r.at = "cleared" =>
       /\ r.role # "owner" => r.owners # {r.target}
       /\ r.current = "owner" \/ r.role = "owner" => Owning(r.held)
       /\ Managing(r.held)

RowsOK ==
  /\ DOMAIN role = People /\ DOMAIN rowLock = People
  /\ \A p \in People : role[p] # "none" => p \in accounts
  /\ \A p \in People : rowLock[p] # Nobody => role[p] # "none"

MembersOK == RowsOK /\ DOMAIN post = Posts /\ \A q \in Posts : PostOK(q, post[q])

\* A request is not nobody.
LEMMA PostsAreSomebody == Nobody \notin Posts
  BY MembersAssumption

\* The next row is one of those still to be locked.
LEMMA NextIsOneOf == ASSUME NEW S \in SUBSET People, S # {} PROVE Next1(S) \in S
<1> DEFINE I == {i \in DOMAIN ScanOrder : ScanOrder[i] \in S}
<1>1. ScanOrder \in Seq(People) /\ \A p \in People : \E i \in DOMAIN ScanOrder : ScanOrder[i] = p
  BY MembersAssumption
<1>2. DOMAIN ScanOrder = 1..Len(ScanOrder) /\ Len(ScanOrder) \in Nat
  BY <1>1
<1>3. I \subseteq Nat /\ I # {}
  BY <1>1, <1>2
<1>4. PICK i \in I : \A j \in I : ~(<<j, i>> \in OpToRel(<, Nat))
  BY <1>3, NatLessThanWellFounded, WFMin
<1>5. \A j \in I : ~(j < i)
  BY <1>3, <1>4 DEF OpToRel
<1>6. \A j \in 1..(i - 1) : ScanOrder[j] \notin S
  BY <1>2, <1>5
<1>7. \E k \in DOMAIN ScanOrder : ScanOrder[k] \in S /\ \A j \in 1..(k - 1) : ScanOrder[j] \notin S
  BY <1>6
<1> QED
  BY <1>7 DEF Next1

\* A request alone moves on, and no row does.
LEMMA OnePostMoves ==
  ASSUME MembersOK, UNCHANGED <<accounts, role, rowLock>>, NEW q \in Posts, NEW r,
         post' = [post EXCEPT ![q] = r], PostOK(q, r)
  PROVE  MembersOK'
<1>1. \A c \in Posts : post'[c] = IF c = q THEN r ELSE post[c]
  BY DEF MembersOK
<1>2. ASSUME NEW c \in Posts PROVE PostOK(c, post[c])'
  <2>1. PostOK(c, post'[c])
    BY <1>1 DEF MembersOK
  <2>2. accounts' = accounts /\ role' = role /\ rowLock' = rowLock
    OBVIOUS
  <2> QED
    BY <2>1, <2>2 DEF PostOK
<1>3. DOMAIN post' = Posts
  BY DEF MembersOK
<1>4. RowsOK'
  <2>1. RowsOK
    BY DEF MembersOK
  <2> QED
    BY <2>1 DEF RowsOK
<1> QED
  BY <1>2, <1>3, <1>4 DEF MembersOK

\* Rows nobody has locked may change, or come to be.
LEMMA FreeRowsChange ==
  ASSUME MembersOK, UNCHANGED <<rowLock, post>>, accounts \subseteq accounts', DOMAIN role' = People,
         \A p \in People : role'[p] = role[p] \/ (role[p] = "none" /\ p \in accounts')
  PROVE  MembersOK'
<1>1. \A p \in People : rowLock[p] # Nobody => role'[p] = role[p]
  BY DEF MembersOK, RowsOK
<1>2. RowsOK'
  BY <1>1 DEF MembersOK, RowsOK
<1>3. ASSUME NEW q \in Posts PROVE PostOK(q, post[q])'
  <2>1. PostOK(q, post[q])
    BY DEF MembersOK
  <2>2. \A p \in People : rowLock[p] = q => role'[p] = role[p]
    BY <1>1, PostsAreSomebody
  <2>3. {p \in People : rowLock[p] = q /\ role[p] = "owner"} = {p \in People : rowLock[p] = q /\ role'[p] = "owner"}
    BY <2>2
  <2> QED
    BY <2>1, <2>2, <2>3 DEF PostOK
<1> QED
  BY <1>2, <1>3 DEF MembersOK

\* A request that ends gives back its rows, and may have written its target's.
LEMMA PostEnds ==
  ASSUME MembersOK, NEW q \in Posts, End(q), accounts' = accounts, DOMAIN role' = People,
         \A p \in People : role'[p] = role[p] \/ (p = post[q].target /\ rowLock[p] \in {Nobody, q}),
         \A p \in People : role'[p] # "none" => p \in accounts
  PROVE  MembersOK'
<1>1. DOMAIN rowLock' = People /\ \A p \in People : rowLock'[p] = IF rowLock[p] = q THEN Nobody ELSE rowLock[p]
  BY DEF End, Unlock
<1>2. \A c \in Posts : post'[c] = IF c = q THEN Finished ELSE post[c]
  BY DEF End, MembersOK
<1>3. \A p \in People : rowLock'[p] # Nobody => role'[p] = role[p] /\ rowLock[p] # Nobody
  BY <1>1
<1>4. RowsOK'
  BY <1>1, <1>3 DEF MembersOK, RowsOK
<1>5. PostOK(q, post[q])'
  <2>1. DOMAIN Finished = PostFields /\ Finished.at = "done"
    BY DEF Finished, Unmade, PostFields
  <2> QED
    BY <1>1, <1>2, <2>1, PostsAreSomebody DEF PostOK
<1>6. ASSUME NEW c \in Posts, c # q PROVE PostOK(c, post[c])'
  <2>1. PostOK(c, post[c]) /\ post'[c] = post[c]
    BY <1>2, <1>6 DEF MembersOK
  <2>2. \A p \in People : (rowLock'[p] = c <=> rowLock[p] = c) /\ (rowLock[p] = c => role'[p] = role[p])
    BY <1>1, <1>6, PostsAreSomebody
  <2>3. {p \in People : rowLock[p] = c /\ role[p] = "owner"} = {p \in People : rowLock'[p] = c /\ role'[p] = "owner"}
    BY <2>2
  <2>4. accounts' = accounts
    OBVIOUS
  <2> QED
    BY <2>1, <2>2, <2>3, <2>4 DEF PostOK
<1> QED
  BY <1>2, <1>4, <1>5, <1>6 DEF End, MembersOK

\* A form comes in.
LEMMA FormsKeep == ASSUME MembersOK, NEW q \in Posts, saveMembers(q) PROVE MembersOK'
<1>0. post[q].at = "idle"
  BY DEF saveMembers
<1>1. ASSUME NEW a, NEW op, NEW t \in People, NEW o, Submit(q, a, op, t, o),
             op = "add" => t \in accounts, op = "remove" => o.role = "none"
      PROVE  MembersOK'
  <2> DEFINE r == [Unmade EXCEPT !.op = op, !.at = "asked", !.actor = a,
                                 !.target = t, !.role = o.role, !.temp = o.temp]
  <2>1. /\ DOMAIN r = PostFields /\ r.at = "asked" /\ r.op = op /\ r.target = t /\ r.role = o.role
        /\ r.owners = {}
    BY DEF Unmade, PostFields
  <2>2. \A p \in People : rowLock[p] # q
    BY <1>0 DEF MembersOK, PostOK
  <2>3. post' = [post EXCEPT ![q] = r] /\ UNCHANGED <<accounts, role, rowLock>>
    BY <1>1 DEF Submit, rows
  <2> HIDE DEF r
  <2>4. PostOK(q, r)
    BY <1>1, <2>1, <2>2 DEF PostOK
  <2> QED
    BY <2>3, <2>4, OnePostMoves
<1>2. ASSUME NEW a, addMember(q, a) PROVE MembersOK'
  <2>1. PICK t \in People, o \in Offers : Submit(q, a, IF t \in accounts THEN "add" ELSE "invite", t, o)
    BY <1>2 DEF addMember
  <2>2. CASE t \in accounts
    BY <1>1, <2>1, <2>2
  <2>3. CASE t \notin accounts
    BY <1>1, <2>1, <2>3
  <2> QED
    BY <2>2, <2>3
<1>3. ASSUME NEW a, changeRole(q, a) PROVE MembersOK'
  <2>1. PICK t \in People, o \in Offers : Submit(q, a, "role", t, o)
    BY <1>3 DEF changeRole
  <2> QED
    BY <1>1, <2>1
<1>4. ASSUME NEW a, removeMember(q, a) PROVE MembersOK'
  <2> DEFINE o == [role |-> "none", temp |-> FALSE]
  <2>1. PICK t \in People : Submit(q, a, "remove", t, o)
    BY <1>4 DEF removeMember
  <2>2. o.role = "none"
    OBVIOUS
  <2> HIDE DEF o
  <2> QED
    BY <1>1, <2>1, <2>2
<1> QED
  BY <1>2, <1>3, <1>4 DEF saveMembers

\* The rows are chosen, and locked one by one.
LEMMA LocksKeep == ASSUME MembersOK, NEW q \in Posts, lockMembership(q) \/ LockRow(q) PROVE MembersOK'
<1> DEFINE old == post[q]
<1>1. PostOK(q, old) /\ DOMAIN old = PostFields /\ DOMAIN post = Posts
  BY DEF MembersOK, PostOK
<1>2. CASE lockMembership(q)
  <2> DEFINE r == [old EXCEPT !.at = "locking", !.left = Wanted(old.target)]
  <2>1. post' = [post EXCEPT ![q].at = "locking", ![q].left = Wanted(post[q].target)]
    BY <1>2 DEF lockMembership
  <2>2. post' = [post EXCEPT ![q] = r]
    BY <1>1, <2>1
  <2>3. /\ DOMAIN r = PostFields /\ r.at = "locking" /\ r.op = old.op /\ r.target = old.target
        /\ r.role = old.role /\ r.owners = old.owners /\ r.left = Wanted(old.target)
        /\ r.current = old.current
    BY <1>1 DEF PostFields
  <2>4. old.at = "asked" /\ UNCHANGED <<accounts, role, rowLock>>
    BY <1>2 DEF lockMembership, rows
  <2>5. Wanted(old.target) \subseteq People
    BY DEF Wanted
  <2> HIDE DEF r, old
  <2>6. PostOK(q, r)
    <3>1. old.owners = {} /\ (\A p \in People : rowLock[p] # q) /\ old.target \in People
      BY <1>1, <2>4 DEF PostOK
    <3>2. (r.op = "add" => r.target \in accounts) /\ (r.op = "remove" => r.role = "none")
      BY <1>1, <2>3, <2>4 DEF PostOK
    <3>3. r.owners = {p \in People : rowLock[p] = q /\ role[p] = "owner"}
      BY <2>3, <3>1
    <3> QED
      BY <2>3, <2>5, <3>1, <3>2, <3>3 DEF PostOK
  <2> QED
    BY <2>2, <2>4, <2>6, OnePostMoves
<1>3. CASE LockRow(q)
  <2> DEFINE p == Next1(old.left)
             own == IF role[p] = "owner" THEN old.owners \union {p} ELSE old.owners
             cur == IF p = old.target THEN role[p] ELSE old.current
             r == [old EXCEPT !.left = old.left \ {p}, !.owners = own, !.current = cur]
  <2>1. /\ old.at = "locking" /\ old.left # {} /\ rowLock[p] = Nobody
        /\ rowLock' = [rowLock EXCEPT ![p] = IF role[p] = "none" THEN Nobody ELSE q]
        /\ UNCHANGED <<accounts, role>>
    BY <1>3 DEF LockRow, rows
  <2>2. post' = [post EXCEPT ![q] = r]
    <3>1. post' = [post EXCEPT ![q].left = @ \ {p},
                    ![q].owners = IF role[p] = "owner" THEN @ \union {p} ELSE @,
                    ![q].current = IF p = post[q].target THEN role[p] ELSE @]
      BY <1>3 DEF LockRow
    <3> HIDE DEF p
    <3> QED
      BY <1>1, <3>1
  <2>3. /\ DOMAIN r = PostFields /\ r.at = "locking" /\ r.op = old.op /\ r.target = old.target
        /\ r.role = old.role /\ r.owners = own /\ r.left = old.left \ {p} /\ r.current = cur
    <3> HIDE DEF own, cur, p
    <3> QED
      BY <1>1, <2>1 DEF PostFields
  <2>4. old.left \subseteq People
    BY <1>1, <2>1 DEF PostOK
  <2>5. p \in People
    BY <2>1, <2>4, NextIsOneOf
  <2> HIDE DEF r, old, p
  <2>6. DOMAIN rowLock' = People /\ \A c \in People : rowLock'[c] = IF c = p THEN IF role[p] = "none" THEN Nobody ELSE q ELSE rowLock[c]
    BY <2>1, <2>5 DEF MembersOK, RowsOK
  <2>7. RowsOK'
    BY <2>1, <2>6, PostsAreSomebody DEF MembersOK, RowsOK
  <2>8. \A c \in Posts : post'[c] = IF c = q THEN r ELSE post[c]
    BY <1>1, <2>2
  <2>9. PostOK(q, post[q])'
    <3>1. old.owners = {c \in People : rowLock[c] = q /\ role[c] = "owner"}
      BY <1>1, <2>1 DEF PostOK
    <3>2. own = {c \in People : rowLock'[c] = q /\ role'[c] = "owner"}
      <4>1. CASE role[p] = "owner"
        BY <2>1, <2>5, <2>6, <3>1, <4>1
      <4>2. CASE role[p] # "owner"
        BY <2>1, <2>5, <2>6, <3>1, <4>2, PostsAreSomebody
      <4> QED
        BY <4>1, <4>2
    <3>3. rowLock'[old.target] = q => cur = role[old.target]
      <4>1. rowLock[old.target] = q => old.current = role[old.target]
        BY <1>1, <2>1 DEF PostOK
      <4>2. old.target \in People
        BY <1>1, <2>1 DEF PostOK
      <4> QED
        BY <2>6, <4>1, <4>2
    <3> HIDE DEF own, cur
    <3>4. /\ old.target \in People /\ (old.op = "add" => old.target \in accounts)
          /\ (old.op = "remove" => old.role = "none")
      BY <1>1, <2>1 DEF PostOK
    <3>5. post'[q] = r /\ accounts' = accounts /\ role' = role
      BY <2>1, <2>8
    <3> QED
      BY <2>3, <2>4, <3>2, <3>3, <3>4, <3>5 DEF PostOK
  <2>10. ASSUME NEW c \in Posts, c # q PROVE PostOK(c, post[c])'
    <3>1. PostOK(c, post[c]) /\ post'[c] = post[c]
      BY <2>8, <2>10 DEF MembersOK
    <3>2. \A x \in People : rowLock'[x] = c <=> rowLock[x] = c
      BY <2>1, <2>6, <2>10, PostsAreSomebody
    <3>3. {x \in People : rowLock[x] = c /\ role[x] = "owner"} = {x \in People : rowLock'[x] = c /\ role'[x] = "owner"}
      BY <2>1, <3>2
    <3>4. accounts' = accounts /\ role' = role
      BY <2>1
    <3> QED
      BY <3>1, <3>2, <3>3, <3>4 DEF PostOK
  <2> QED
    BY <1>1, <2>2, <2>7, <2>9, <2>10 DEF MembersOK
<1> QED
  BY <1>2, <1>3

\* Who may act is asked against the rows as they were locked.
LEMMA AuthorizeKeeps == ASSUME MembersOK, NEW q \in Posts, Authorize(q) PROVE MembersOK'
<1> DEFINE old == post[q]
<1>1. PostOK(q, old) /\ DOMAIN old = PostFields /\ DOMAIN post = Posts
  BY DEF MembersOK, PostOK
<1>2. UNCHANGED <<accounts, role>> /\ old.at = "locking"
  BY DEF Authorize, rows
<1>3. CASE End(q)
  BY <1>2, <1>3, PostEnds DEF MembersOK, RowsOK
<1>4. CASE /\ Allowed(q) /\ UNCHANGED rowLock
           /\ post' = [post EXCEPT ![q].at = "cleared", ![q].held = AccessFor(post[q].actor)]
  <2> DEFINE access == AccessFor(old.actor)
             r == [old EXCEPT !.at = "cleared", !.held = access]
  <2>1. post' = [post EXCEPT ![q] = r]
    <3> HIDE DEF access
    <3>1. post' = [post EXCEPT ![q].at = "cleared", ![q].held = access]
      BY <1>4 DEF access
    <3> QED
      BY <1>1, <3>1
  <2>2. /\ DOMAIN r = PostFields /\ r.at = "cleared" /\ r.op = old.op /\ r.target = old.target
        /\ r.role = old.role /\ r.owners = old.owners /\ r.current = old.current
        /\ r.held = access
    <3> HIDE DEF access
    <3> QED
      BY <1>1 DEF PostFields
  <2>3. mayActOnMember(q) /\ (old.role # "owner" => old.owners # {old.target})
    BY <1>4 DEF Allowed, lastOwnerIs
  <2>4. /\ old.current = "owner" \/ old.role = "owner" => Owning(access)
        /\ Managing(access)
    <3>1. CASE old.actor = Operator
      BY <3>1, MembersAssumption DEF AccessFor, Owning, Managing
    <3>2. CASE /\ CanManageMember(old.actor, old.current)
               /\ old.op # "remove" => CanAssign(old.actor, old.role)
      <4>1. old.op = "remove" => old.role = "none"
        BY <1>1, <1>2 DEF PostOK
      <4> QED
        BY <3>2, <4>1 DEF CanManageMember, CanAssign, Owns, CanManageMembers
    <3> QED
      BY <2>3, <3>1, <3>2 DEF mayActOnMember
  <2>5. /\ old.target \in People /\ (old.op = "add" => old.target \in accounts)
        /\ (old.op = "remove" => old.role = "none")
        /\ old.owners = {p \in People : rowLock[p] = q /\ role[p] = "owner"}
        /\ rowLock[old.target] = q => old.current = role[old.target]
    BY <1>1, <1>2 DEF PostOK
  <2> HIDE DEF access, r, old
  <2>6. PostOK(q, r)
    BY <2>2, <2>3, <2>4, <2>5 DEF PostOK
  <2> QED
    BY <1>2, <1>4, <2>1, <2>6, OnePostMoves
<1> QED
  BY <1>3, <1>4 DEF Authorize

\* What a write does to its target's row.
Writes(q) ==
  /\ MayWrite(q) /\ End(q) /\ DOMAIN role' = People /\ UNCHANGED accounts
  /\ \A p \in People : p # post[q].target => role'[p] = role[p]
  /\ LET t == post[q].target IN
     \/ role'[t] = role[t]
     \/ /\ role'[t] = post[q].role
        /\ role'[t] # "none" => t \in accounts

\* The three statements that touch a role are writes of one row under its lock.
LEMMA WritesAre == ASSUME MembersOK, NEW q \in Posts, AddMember(q) \/ SetMemberRole(q) \/ RemoveMember(q)
                   PROVE  Writes(q)
<1>1. /\ PostOK(q, post[q]) /\ DOMAIN role = People /\ \A p \in People : role[p] # "none" => p \in accounts
  BY DEF MembersOK, RowsOK
<1>2. MayWrite(q) /\ End(q) /\ UNCHANGED accounts /\ post[q].at = "cleared"
  BY DEF AddMember, SetMemberRole, RemoveMember, MayWrite
<1>3. /\ post[q].target \in People /\ (post[q].op = "add" => post[q].target \in accounts)
      /\ (post[q].op = "remove" => post[q].role = "none")
  BY <1>1, <1>2 DEF PostOK
<1>4. CASE AddMember(q)
  <2>1. role' = [role EXCEPT ![post[q].target] = post[q].role]
    BY <1>4 DEF AddMember
  <2>2. post[q].target \in accounts
    BY <1>3, <1>4 DEF AddMember
  <2> QED
    BY <1>1, <1>2, <2>1, <2>2 DEF Writes
<1>5. CASE SetMemberRole(q)
  <2>1. CASE /\ role[post[q].target] # "none"
             /\ role' = [role EXCEPT ![post[q].target] = post[q].role]
    <3>1. post[q].target \in accounts
      BY <1>1, <1>3, <2>1
    <3> QED
      BY <1>1, <1>2, <2>1, <3>1 DEF Writes
  <2>2. CASE role' = role
    BY <1>1, <1>2, <2>2 DEF Writes
  <2> QED
    BY <1>5, <2>1, <2>2 DEF SetMemberRole, rows
<1>6. CASE RemoveMember(q)
  BY <1>1, <1>2, <1>3, <1>6 DEF RemoveMember, Writes
<1> QED
  BY <1>4, <1>5, <1>6

\* A write keeps the members as they should be.
LEMMA WritesKeep == ASSUME MembersOK, NEW q \in Posts, Writes(q) PROVE MembersOK'
<1>1. \A p \in People : role[p] # "none" => p \in accounts
  BY DEF MembersOK, RowsOK
<1>2. \A p \in People : role'[p] = role[p] \/ (p = post[q].target /\ rowLock[p] \in {Nobody, q})
  BY DEF Writes, MayWrite
<1>3. \A p \in People : role'[p] # "none" => p \in accounts
  BY <1>1 DEF Writes
<1> QED
  BY <1>2, <1>3, PostEnds DEF Writes

\* A request that is given up, or for somebody without an account.
LEMMA OthersKeep ==
  ASSUME MembersOK, NEW q \in Posts,
         Rollback(q) \/ CountInvites(q) \/ CreateMemberInvite(q) \/ MintUnmade(q)
  PROVE  MembersOK'
<1> DEFINE old == post[q]
<1>1. PostOK(q, old) /\ DOMAIN old = PostFields /\ DOMAIN post = Posts
  BY DEF MembersOK, PostOK
<1>2. CASE Rollback(q)
  BY <1>2, PostEnds DEF Rollback, rows, MembersOK, RowsOK
<1>3. DOMAIN Finished = PostFields /\ Finished.at = "done"
  BY DEF Finished, Unmade, PostFields
<1>4. CASE CountInvites(q) \/ CreateMemberInvite(q) \/ MintUnmade(q)
  <2>1. UNCHANGED <<accounts, role, rowLock>> /\ old.at \in {"asked", "minting"}
    BY <1>4 DEF CountInvites, CreateMemberInvite, MintUnmade, rows
  <2>2. \A p \in People : rowLock[p] # q
    BY <1>1, <2>1 DEF PostOK
  <2>3. PostOK(q, Finished)
    BY <1>3, <2>2 DEF PostOK
  <2>4. CASE post' = [post EXCEPT ![q] = Finished]
    BY <2>1, <2>3, <2>4, OnePostMoves
  <2>5. ASSUME NEW left, post' = [post EXCEPT ![q].at = "minting", ![q].left = left]
        PROVE  MembersOK'
    <3> DEFINE r == [old EXCEPT !.at = "minting", !.left = left]
    <3>1. post' = [post EXCEPT ![q] = r]
      BY <1>1, <2>5
    <3>2. DOMAIN r = PostFields /\ r.at = "minting"
      BY <1>1 DEF PostFields
    <3> HIDE DEF r
    <3>3. PostOK(q, r)
      BY <2>2, <3>2 DEF PostOK
    <3> QED
      BY <2>1, <3>1, <3>3, OnePostMoves
  <2>6. \/ post' = [post EXCEPT ![q] = Finished]
        \/ \E left : post' = [post EXCEPT ![q].at = "minting", ![q].left = left]
    BY <1>4 DEF CountInvites, CreateMemberInvite, MintUnmade
  <2> QED
    BY <2>4, <2>5, <2>6
<1> QED
  BY <1>2, <1>4

\* Invitations and claims give a role only to somebody without one.
LEMMA LinksKeep ==
  ASSUME MembersOK,
         \/ \E i \in InviteIds : withdrawInvite(i) \/ LapseInvite(i) \/ submitJoin(i)
         \/ \E c \in ClaimIds : handOver(c) \/ LapseClaim(c) \/ submitClaim(c)
         \/ \E p \in People : EndDate(p)
         \/ UNCHANGED membersVars
  PROVE  /\ MembersOK' /\ UNCHANGED post /\ DOMAIN role' = DOMAIN role
         /\ \A p \in People : role'[p] = role[p] \/ role[p] = "none"
<1>1. DOMAIN role = People /\ \A p \in People : role[p] # "none" => p \in accounts
  BY DEF MembersOK, RowsOK
<1>2. ASSUME UNCHANGED <<accounts, role, rowLock, post>>
      PROVE  /\ MembersOK' /\ UNCHANGED post /\ DOMAIN role' = DOMAIN role
             /\ \A p \in People : role'[p] = role[p] \/ role[p] = "none"
  BY <1>1, <1>2, FreeRowsChange
<1>3. ASSUME NEW i \in InviteIds, RedeemMemberInvite(i)
      PROVE  /\ MembersOK' /\ UNCHANGED post /\ DOMAIN role' = DOMAIN role
             /\ \A p \in People : role'[p] = role[p] \/ role[p] = "none"
  <2> DEFINE t == invites[i].to
  <2>1. /\ accounts' = accounts \union {t} /\ UNCHANGED <<rowLock, post>>
        /\ \/ role[t] = "none" /\ role' = [role EXCEPT ![t] = invites[i].role]
           \/ role' = role
    BY <1>3 DEF RedeemMemberInvite, rows
  <2>2. DOMAIN role' = People
    BY <1>1, <2>1
  <2>3. \A p \in People : role'[p] = role[p] \/ (role[p] = "none" /\ p \in accounts')
    BY <1>1, <2>1
  <2> QED
    BY <1>1, <2>1, <2>2, <2>3, FreeRowsChange
<1>4. ASSUME NEW c \in ClaimIds, RedeemOwnerClaim(c)
      PROVE  /\ MembersOK' /\ UNCHANGED post /\ DOMAIN role' = DOMAIN role
             /\ \A p \in People : role'[p] = role[p] \/ role[p] = "none"
  <2> DEFINE t == claims[c].to
  <2>1. /\ accounts' = accounts \union {t} /\ UNCHANGED <<rowLock, post>> /\ t \notin accounts
        /\ role' = [role EXCEPT ![t] = "owner"]
    BY <1>4 DEF RedeemOwnerClaim
  <2>2. DOMAIN role' = People
    BY <1>1, <2>1
  <2>3. \A p \in People : role'[p] = role[p] \/ (role[p] = "none" /\ p \in accounts')
    BY <1>1, <2>1
  <2> QED
    BY <1>1, <2>1, <2>2, <2>3, FreeRowsChange
<1> QED
  BY <1>2, <1>3, <1>4 DEF withdrawInvite, RevokeMemberInvite, LapseInvite, submitJoin, TakeInvite,
       AskInviter, JoinFails, handOver, CreateOwnerClaim, LapseClaim, submitClaim, EndDate, membersVars, rows

\* Every step is one of these, and only a write or a link changes a row.
LEMMA MembersStep ==
  ASSUME MembersOK, [MembersNext]_membersVars
  PROVE  /\ MembersOK'
         /\ \/ UNCHANGED role
            \/ \E q \in Posts : Writes(q)
            \/ /\ UNCHANGED post /\ DOMAIN role' = DOMAIN role
               /\ \A p \in People : role'[p] = role[p] \/ role[p] = "none"
               /\ \/ \E i \in InviteIds : submitJoin(i)
                  \/ \E c \in ClaimIds : submitClaim(c)
<1>1. ASSUME NEW q \in Posts, saveMembers(q) PROVE MembersOK' /\ UNCHANGED role
  <2>1. ASSUME NEW a, NEW op, NEW t, NEW o, Submit(q, a, op, t, o) PROVE UNCHANGED role
    BY <2>1 DEF Submit, rows
  <2>2. MembersOK'
    BY <1>1, FormsKeep
  <2> QED
    BY <1>1, <2>1, <2>2 DEF saveMembers, addMember, changeRole, removeMember
<1>2. ASSUME NEW q \in Posts, lockMembership(q) \/ LockRow(q) PROVE MembersOK' /\ UNCHANGED role
  <2>1. lockMembership(q) => UNCHANGED role
    BY DEF lockMembership, rows
  <2>2. LockRow(q) => UNCHANGED role
    BY DEF LockRow, rows
  <2>3. MembersOK'
    BY <1>2, LocksKeep
  <2> QED
    BY <1>2, <2>1, <2>2, <2>3
<1>3. ASSUME NEW q \in Posts, Authorize(q) PROVE MembersOK' /\ UNCHANGED role
  BY <1>3, AuthorizeKeeps DEF Authorize, rows
<1>4. ASSUME NEW q \in Posts, AddMember(q) \/ SetMemberRole(q) \/ RemoveMember(q)
      PROVE  MembersOK' /\ Writes(q)
  BY <1>4, WritesAre, WritesKeep
<1>5. ASSUME NEW q \in Posts,
             Rollback(q) \/ CountInvites(q) \/ CreateMemberInvite(q) \/ MintUnmade(q)
      PROVE  MembersOK' /\ UNCHANGED role
  BY <1>5, OthersKeep DEF Rollback, CountInvites, CreateMemberInvite, MintUnmade, rows
<1>6. CASE \E q \in Posts : saveMembers(q) \/ Step(q) \/ Rollback(q)
  <2>1. \A q \in Posts : DeadlockVictim(q) => Rollback(q)
    BY DEF DeadlockVictim
  <2> QED
    BY <1>1, <1>2, <1>3, <1>4, <1>5, <1>6, <2>1 DEF Step
<1>7. CASE \/ \E p \in People : EndDate(p)
           \/ \E i \in InviteIds : withdrawInvite(i) \/ LapseInvite(i)
           \/ \E c \in ClaimIds : handOver(c) \/ LapseClaim(c)
           \/ UNCHANGED membersVars
  <2>1. MembersOK'
    BY <1>7, LinksKeep
  <2>2. UNCHANGED role
    BY <1>7 DEF withdrawInvite, RevokeMemberInvite, LapseInvite, handOver, CreateOwnerClaim,
                LapseClaim, EndDate, membersVars, rows
  <2> QED
    BY <2>1, <2>2
<1>8. CASE \/ \E i \in InviteIds : submitJoin(i)
           \/ \E c \in ClaimIds : submitClaim(c)
  BY <1>8, LinksKeep
<1> QED
  BY <1>6, <1>7, <1>8 DEF MembersNext

\* The members are as they should be when the panel starts.
LEMMA MembersStart == MembersInit => MembersOK
<1> SUFFICES ASSUME MembersInit PROVE MembersOK
  OBVIOUS
<1>1. /\ DOMAIN role = People /\ DOMAIN rowLock = People /\ DOMAIN post = Posts
      /\ accounts = StartAccounts
      /\ \A p \in People : rowLock[p] = Nobody /\ (p \notin StartAccounts => role[p] = "none")
      /\ \A q \in Posts : post[q] = Unmade
  BY DEF MembersInit
<1>2. DOMAIN Unmade = PostFields /\ Unmade.at = "idle"
  BY DEF Unmade, PostFields
<1>3. \A q \in Posts : PostOK(q, post[q])
  BY <1>1, <1>2, PostsAreSomebody DEF PostOK
<1> QED
  BY <1>1, <1>3 DEF MembersOK, RowsOK

\* A site keeps an owner (ErrLastOwner, members.go), whatever posts meet, save
\* for a write over a membership that appeared after its post read the rows: an
\* owner found by that read stays one while the post holds the row.
THEOREM AnOwnerRemains == MembersSpec => OwnerRemains
<1> DEFINE Kept == owners # {} /\ owners' = {} =>
                     \E q \in Posts, p \in owners : Wrote(q, p) /\ Unlocked(q, p)
<1>1. MembersOK /\ [MembersNext]_membersVars => MembersOK' /\ [Kept]_membersVars
  <2> SUFFICES ASSUME MembersOK, [MembersNext]_membersVars PROVE MembersOK' /\ Kept
    OBVIOUS
  <2>1. CASE UNCHANGED role
    BY <2>1, MembersStep DEF owners
  <2>2. CASE /\ UNCHANGED post /\ DOMAIN role' = DOMAIN role
             /\ \A p \in People : role'[p] = role[p] \/ role[p] = "none"
    <3>1. owners \subseteq owners'
      BY <2>2 DEF owners
    <3> QED
      BY <2>2, <3>1, MembersStep
  <2>3. ASSUME NEW q \in Posts, Writes(q) PROVE Kept
    <3> DEFINE t == post[q].target
    <3>1. /\ \A p \in People : p # t => role'[p] = role[p]
          /\ MayWrite(q) /\ End(q)
          /\ role'[t] = role[t] \/ role'[t] = post[q].role
      BY <2>3 DEF Writes
    <3>2. PostOK(q, post[q]) /\ post[q].at = "cleared" /\ DOMAIN post = Posts
      BY <3>1 DEF MembersOK, MayWrite
    <3>3. Wrote(q, t)
      BY <3>1, <3>2 DEF Wrote, End, Finished, Unmade
    <3>4. CASE t \notin owners \/ role'[t] = role[t]
      <4>1. owners \subseteq owners'
        BY <3>1, <3>4 DEF owners
      <4> QED
        BY <4>1
    <3>5. CASE t \in owners /\ rowLock[t] # q
      BY <3>3, <3>5 DEF Unlocked
    <3>6. CASE t \in owners /\ rowLock[t] = q /\ role'[t] # role[t]
      <4>1. post[q].role # "owner"
        BY <3>1, <3>6 DEF owners
      <4>2. /\ post[q].owners = {p \in People : rowLock[p] = q /\ role[p] = "owner"}
            /\ post[q].owners # {t}
        BY <3>2, <4>1 DEF PostOK
      <4>3. t \in post[q].owners
        BY <3>6, <4>2 DEF owners
      <4>4. PICK u \in post[q].owners : u # t
        BY <4>2, <4>3
      <4>5. u \in People /\ role[u] = "owner"
        BY <4>2, <4>4
      <4>6. u \in owners'
        BY <3>1, <4>4, <4>5 DEF owners
      <4> QED
        BY <4>6
    <3> QED
      BY <3>4, <3>5, <3>6
  <2> QED
    BY <2>1, <2>2, <2>3, MembersStep
<1> QED
  BY <1>1, MembersStart, PTL DEF MembersSpec, OwnerRemains

\* Links have a state, and what a redemption grants its author could give when it
\* asked.
LinksShape ==
  /\ DOMAIN invites = InviteIds /\ DOMAIN claims = ClaimIds /\ DOMAIN join = InviteIds
  /\ \A i \in InviteIds : "st" \in DOMAIN invites[i]
  /\ \A c \in ClaimIds : "st" \in DOMAIN claims[c]
  /\ \A i \in InviteIds : DOMAIN join[i] = {"at", "could"}
  /\ \A i \in InviteIds : join[i].at = "granting" => join[i].could

\* Every step keeps the shape of the links.
LEMMA LinksShapeKept == LinksShape /\ [MembersNext]_membersVars => LinksShape'
<1> SUFFICES ASSUME LinksShape, [MembersNext]_membersVars PROVE LinksShape'
  OBVIOUS
<1>1. ASSUME UNCHANGED <<invites, claims, join>> PROVE LinksShape'
  BY <1>1 DEF LinksShape
<1>2. ASSUME NEW i, NEW s, invites' = [invites EXCEPT ![i].st = s], UNCHANGED <<claims, join>> PROVE LinksShape'
  BY <1>2 DEF LinksShape
<1>3. ASSUME NEW c, NEW s, claims' = [claims EXCEPT ![c].st = s], UNCHANGED <<invites, join>> PROVE LinksShape'
  BY <1>3 DEF LinksShape
<1>4. ASSUME NEW q, CreateMemberInvite(q) PROVE LinksShape'
  <2> DEFINE by == IF post[q].actor = Operator THEN Nobody ELSE post[q].actor
  <2>1. PICK i \in InviteIds :
          invites' = [j \in InviteIds |->
            IF j = i THEN [st |-> "open", to |-> post[q].target, role |-> post[q].role,
                           temp |-> post[q].temp, by |-> by]
            ELSE IF j \in post[q].left /\ Standing(j) THEN [invites[j] EXCEPT !.st = "revoked"]
            ELSE invites[j]]
    BY <1>4 DEF CreateMemberInvite
  <2> HIDE DEF by
  <2>2. DOMAIN invites' = InviteIds /\ UNCHANGED <<claims, join>>
    BY <1>4, <2>1 DEF CreateMemberInvite
  <2>3. ASSUME NEW j \in InviteIds PROVE "st" \in DOMAIN invites'[j]
    <3>1. \/ invites'[j] = [st |-> "open", to |-> post[q].target, role |-> post[q].role,
                           temp |-> post[q].temp, by |-> by]
          \/ invites'[j] = [invites[j] EXCEPT !.st = "revoked"]
          \/ invites'[j] = invites[j]
      BY <2>1
    <3>2. "st" \in DOMAIN invites[j]
      BY DEF LinksShape
    <3> QED
      BY <3>1, <3>2
  <2> QED
    BY <2>2, <2>3 DEF LinksShape
<1>5. ASSUME NEW c, NEW p, CreateOwnerClaim(c, p) PROVE LinksShape'
  BY <1>5 DEF CreateOwnerClaim, LinksShape
<1>6. CASE \E q \in Posts : saveMembers(q) \/ Step(q) \/ Rollback(q)
  <2>1. PICK q \in Posts : saveMembers(q) \/ Step(q) \/ Rollback(q)
    BY <1>6
  <2>2. UNCHANGED <<invites, claims, join>> \/ CreateMemberInvite(q)
    BY <2>1 DEF saveMembers, addMember, changeRole, removeMember, Submit, Step, lockMembership,
         LockRow, Authorize, AddMember, SetMemberRole, RemoveMember, DeadlockVictim, Rollback,
         CountInvites, MintUnmade, rows
  <2> QED
    BY <1>1, <1>4, <2>2
<1>7. CASE (\E p \in People : EndDate(p)) \/ UNCHANGED membersVars
  BY <1>1, <1>7 DEF EndDate, membersVars
<1>8. CASE \E i \in InviteIds : withdrawInvite(i) \/ LapseInvite(i) \/ submitJoin(i)
  <2>1. PICK i \in InviteIds : withdrawInvite(i) \/ LapseInvite(i) \/ submitJoin(i)
    BY <1>8
  <2>2. CASE withdrawInvite(i) \/ LapseInvite(i)
    BY <1>2, <2>2 DEF withdrawInvite, RevokeMemberInvite, LapseInvite
  <2>3. ASSUME NEW j, join' = [join EXCEPT ![i] = j], UNCHANGED claims,
               UNCHANGED invites \/ invites' = [invites EXCEPT ![i].st = "used"],
               DOMAIN j = {"at", "could"}, j.at = "granting" => j.could
        PROVE  LinksShape'
    BY <2>3 DEF LinksShape
  <2>4. DOMAIN NoJoin = {"at", "could"} /\ NoJoin.at # "granting"
    BY DEF NoJoin
  <2>5. CASE TakeInvite(i)
    <3> DEFINE j == [join[i] EXCEPT !.at = "taken"]
    <3>1. DOMAIN join[i] = {"at", "could"}
      BY DEF LinksShape
    <3>2. DOMAIN j = {"at", "could"} /\ j.at = "taken"
      BY <3>1
    <3>3. join' = [join EXCEPT ![i] = j] /\ UNCHANGED <<claims, invites>>
      BY <2>5, <3>1 DEF TakeInvite
    <3> HIDE DEF j
    <3> QED
      BY <2>3, <3>2, <3>3
  <2>6. CASE AskInviter(i)
    <3> DEFINE j == [at |-> "granting", could |-> CanAssign(invites[i].by, invites[i].role)]
    <3>1. /\ UNCHANGED <<claims, invites>>
          /\ \/ inviterMayStillGrant(i) /\ join' = [join EXCEPT ![i] = j]
             \/ join' = [join EXCEPT ![i] = NoJoin]
      BY <2>6 DEF AskInviter
    <3>2. DOMAIN j = {"at", "could"} /\ (inviterMayStillGrant(i) => j.could)
      BY DEF inviterMayStillGrant
    <3> HIDE DEF j
    <3> QED
      BY <2>3, <2>4, <3>1, <3>2
  <2>7. CASE RedeemMemberInvite(i) \/ JoinFails(i)
    BY <2>3, <2>4, <2>7 DEF RedeemMemberInvite, JoinFails
  <2> QED
    BY <2>1, <2>2, <2>5, <2>6, <2>7 DEF submitJoin
<1>9. CASE \E c \in ClaimIds : handOver(c) \/ LapseClaim(c) \/ submitClaim(c)
  <2>1. PICK c : handOver(c) \/ LapseClaim(c) \/ submitClaim(c)
    BY <1>9
  <2>2. CASE handOver(c)
    BY <1>5, <2>2 DEF handOver
  <2>3. CASE LapseClaim(c) \/ submitClaim(c)
    BY <1>3, <2>3 DEF LapseClaim, submitClaim, RedeemOwnerClaim
  <2> QED
    BY <2>1, <2>2, <2>3
<1> QED
  BY <1>6, <1>7, <1>8, <1>9 DEF MembersNext

\* Roles come from those who may give them, and an owner's from owners
\* (members.go, memberinvite.go): the answer of Authorize is about the row the
\* post holds, and a redemption asks about the invitation's author before it
\* grants.
THEOREM RolesDoComeFromAbove == MembersSpec => RolesComeFromAbove
<1> DEFINE Step1 == \A p \in People :
                      /\ role[p] = "owner" /\ role'[p] # "owner" => UnmadeByOwner(p)
                      /\ role'[p] # role[p] /\ role'[p] # "none" => GivenToday(p)
<1>2. MembersOK /\ LinksShape /\ [MembersNext]_membersVars => MembersOK' /\ [Step1]_membersVars
  <2> SUFFICES ASSUME MembersOK, LinksShape, [MembersNext]_membersVars PROVE MembersOK' /\ Step1
    OBVIOUS
  <2>1. CASE UNCHANGED role
    BY <2>1, MembersStep
  <2>2. ASSUME NEW q \in Posts, Writes(q) PROVE Step1
    <3> DEFINE t == post[q].target
    <3>1. /\ \A p \in People : p # t => role'[p] = role[p]
          /\ post[q].at = "cleared" /\ End(q) /\ rowLock[t] \in {Nobody, q}
          /\ \/ role'[t] = role[t]
             \/ role'[t] = post[q].role
      BY <2>2 DEF Writes, MayWrite
    <3>2. PostOK(q, post[q]) /\ DOMAIN post = Posts
      BY DEF MembersOK
    <3>3. /\ post[q].role = "owner" => Owning(post[q].held)
          /\ post[q].current = "owner" => Owning(post[q].held)
          /\ Managing(post[q].held)
          /\ rowLock[t] = q => post[q].current = role[t]
      BY <3>1, <3>2 DEF PostOK
    <3>4. Wrote(q, t)
      BY <3>1, <3>2 DEF Wrote, End, Finished, Unmade
    <3>5. ASSUME role[t] = "owner" PROVE UnmadeByOwner(t)
      <4>1. Owning(post[q].held) \/ Unlocked(q, t)
        BY <3>3, <3>5 DEF Unlocked
      <4> QED
        BY <3>4, <4>1 DEF UnmadeByOwner
    <3>6. ASSUME role'[t] # role[t] PROVE GivenToday(t)
      <4>1. role'[t] = post[q].role
        BY <3>1, <3>6
      <4> QED
        BY <3>1, <3>3, <3>4, <4>1 DEF GivenToday
    <3> QED
      BY <3>1, <3>5, <3>6
  <2>3. ASSUME NEW i \in InviteIds, submitJoin(i) PROVE Step1
    <3> DEFINE t == invites[i].to
    <3>1. CASE UNCHANGED rows
      BY <3>1 DEF rows
    <3>2. CASE RedeemMemberInvite(i)
      <4>1. /\ join[i].at = "granting" /\ invites' = [invites EXCEPT ![i].st = "used"]
            /\ \/ role[t] = "none" /\ role' = [role EXCEPT ![t] = invites[i].role]
               \/ role' = role
        BY <3>2 DEF RedeemMemberInvite, rows
      <4>2. DOMAIN role = People
        BY DEF MembersOK, RowsOK
      <4>3. invites'[i].st = "used" /\ join[i].could
        BY <4>1 DEF LinksShape
      <4> QED
        BY <4>1, <4>2, <4>3 DEF GivenToday
    <3> QED
      BY <2>3, <3>1, <3>2 DEF submitJoin, TakeInvite, AskInviter, JoinFails
  <2>4. ASSUME NEW c \in ClaimIds, submitClaim(c) PROVE Step1
    <3>1. /\ claims[c].st = "open" /\ claims' = [claims EXCEPT ![c].st = "used"]
          /\ role' = [role EXCEPT ![claims[c].to] = "owner"]
          /\ claims[c].to \notin accounts
      BY <2>4 DEF submitClaim, LookupOwnerClaim, RedeemOwnerClaim
    <3>2. DOMAIN role = People /\ \A p \in People : role[p] # "none" => p \in accounts
      BY DEF MembersOK, RowsOK
    <3>3. claims'[c].st = "used"
      BY <3>1 DEF LinksShape
    <3> QED
      BY <3>1, <3>2, <3>3 DEF GivenToday
  <2> QED
    BY <2>1, <2>2, <2>3, <2>4, MembersStep
<1>3. MembersInit => LinksShape
  BY DEF MembersInit, LinksShape, NoInvite, NoJoin
<1> QED
  BY <1>2, <1>3, MembersStart, LinksShapeKept, PTL DEF MembersSpec, RolesComeFromAbove

-----------------------------------------------------------------------------
(* The budgets: failures in the order of their time.                       *)

Rises(s) == \A i, j \in DOMAIN s : i <= j => s[i] <= s[j]

\* The failures that stop counting with this tick come before the others.
LEMMA OldOnesComeFirst ==
  ASSUME NEW s \in Seq(Nat), Rises(s)
  PROVE  \E n \in 0..Len(s) : \A i \in DOMAIN s : s[i] > 1 <=> i > n
<1> DEFINE Counts == {i \in DOMAIN s : s[i] > 1}
<1>1. CASE Counts = {}
  <2>1. Len(s) \in 0..Len(s) /\ \A i \in DOMAIN s : s[i] > 1 <=> i > Len(s)
    BY <1>1
  <2> QED
    BY <2>1
<1>2. CASE Counts # {}
  <2>1. Counts \subseteq Nat
    OBVIOUS
  <2>2. PICK m \in Counts : \A k \in Counts : ~(<<k, m>> \in OpToRel(<, Nat))
    BY <1>2, <2>1, NatLessThanWellFounded, WFMin
  <2>3. \A k \in Counts : ~(k < m)
    BY <2>1, <2>2 DEF OpToRel
  <2>4. \A k \in Counts : m <= k
    BY <2>1, <2>3
  <2>5. m \in DOMAIN s /\ s[m] > 1 /\ m - 1 \in 0..Len(s)
    OBVIOUS
  <2>6. \A i \in DOMAIN s : s[i] > 1 <=> i > m - 1
    <3> SUFFICES ASSUME NEW i \in DOMAIN s PROVE s[i] > 1 <=> i > m - 1
      OBVIOUS
    <3>1. s[i] > 1 => i > m - 1
      BY <2>4, <2>5
    <3>2. ASSUME i > m - 1 PROVE s[i] > 1
      <4>1. m <= i
        BY <2>5, <3>2
      <4> QED
        BY <2>5, <4>1 DEF Rises
    <3> QED
      BY <3>1, <3>2
  <2> QED
    BY <2>5, <2>6
<1> QED
  BY <1>1, <1>2

\* n of them are gone, and the others have a tick less to count.
AgedBy(s, n, t) ==
  /\ n \in 0..Len(s) /\ \A i \in DOMAIN s : s[i] > 1 <=> i > n
  /\ Len(t) = Len(s) - n
  /\ \A i \in 1..(Len(s) - n) : t[i] = s[i + n] - 1

\* What a cut at such a place leaves is a budget again.
LEMMA CutIsABudget ==
  ASSUME NEW W \in Nat, NEW s \in Seq(1..W), Rises(s), NEW n \in 0..Len(s),
         \A i \in DOMAIN s : s[i] > 1 <=> i > n,
         NEW t, t = [i \in 1..(Len(s) - n) |-> s[i + n] - 1]
  PROVE  t \in Seq(1..W) /\ Rises(t) /\ AgedBy(s, n, t)
<1>1. Len(s) - n \in Nat
  OBVIOUS
<1>2. ASSUME NEW i \in 1..(Len(s) - n) PROVE t[i] \in 1..W /\ t[i] = s[i + n] - 1
  <2>1. i + n \in DOMAIN s /\ i + n > n
    OBVIOUS
  <2>2. s[i + n] \in 1..W /\ s[i + n] > 1
    BY <2>1
  <2> QED
    BY <2>2
<1>3. t \in Seq(1..W) /\ Len(t) = Len(s) - n /\ DOMAIN t = 1..(Len(s) - n)
  BY <1>1, <1>2
<1>4. Rises(t)
  <2> SUFFICES ASSUME NEW i \in DOMAIN t, NEW j \in DOMAIN t, i <= j PROVE t[i] <= t[j]
    BY DEF Rises
  <2>1. i + n \in DOMAIN s /\ j + n \in DOMAIN s /\ i + n <= j + n
    BY <1>3
  <2>2. s[i + n] <= s[j + n]
    BY <2>1 DEF Rises
  <2> QED
    BY <1>2, <1>3, <2>1, <2>2
<1> QED
  BY <1>2, <1>3, <1>4 DEF AgedBy

\* Aged of the login (attempts.go) removes such a part.
LEMMA AgedIsABudget ==
  ASSUME NEW W \in Nat, NEW s \in Seq(1..W), Rises(s)
  PROVE  Aged(s) \in Seq(1..W) /\ Rises(Aged(s)) /\ \E n \in 0..Len(s) : AgedBy(s, n, Aged(s))
<1> DEFINE gone == CHOOSE n \in 0..Len(s) : \A i \in DOMAIN s : s[i] > 1 <=> i > n
<1>1. s \in Seq(Nat)
  OBVIOUS
<1>2. gone \in 0..Len(s) /\ \A i \in DOMAIN s : s[i] > 1 <=> i > gone
  BY <1>1, OldOnesComeFirst
<1>3. Aged(s) = [i \in 1..(Len(s) - gone) |-> s[i + gone] - 1]
  BY DEF Aged
<1> HIDE DEF gone
<1> QED
  BY <1>2, <1>3, CutIsABudget

\* A failure of this moment counts for longest.
LEMMA NewestCountsLongest ==
  ASSUME NEW W \in Nat \ {0}, NEW s \in Seq(1..W), Rises(s)
  PROVE  /\ Append(s, W) \in Seq(1..W) /\ Rises(Append(s, W))
         /\ Len(Append(s, W)) = Len(s) + 1
         /\ \A i \in DOMAIN s : Append(s, W)[i] = s[i]
         /\ Append(s, W)[Len(s) + 1] = W
<1>1. /\ Append(s, W) \in Seq(1..W) /\ Len(Append(s, W)) = Len(s) + 1
      /\ \A i \in DOMAIN s : Append(s, W)[i] = s[i]
      /\ Append(s, W)[Len(s) + 1] = W /\ DOMAIN Append(s, W) = 1..(Len(s) + 1)
  OBVIOUS
<1>2. ASSUME NEW i \in 1..(Len(s) + 1), NEW j \in 1..(Len(s) + 1), i <= j
      PROVE  Append(s, W)[i] <= Append(s, W)[j]
  <2>1. CASE j = Len(s) + 1
    <3>1. Append(s, W)[i] \in 1..W
      BY <1>1
    <3> QED
      BY <1>1, <2>1, <3>1
  <2>2. CASE j # Len(s) + 1
    <3>1. i \in DOMAIN s /\ j \in DOMAIN s
      BY <1>2, <2>2
    <3>2. s[i] <= s[j]
      BY <1>2, <3>1 DEF Rises
    <3> QED
      BY <1>1, <3>1, <3>2
  <2> QED
    BY <2>1, <2>2
<1> QED
  BY <1>1, <1>2 DEF Rises

-----------------------------------------------------------------------------
(* Signing in.                                                             *)

AttemptShape ==
  [op : {"none", "login", "code", "recover", "password", "disable", "confirm"},
   at : {"idle", "asked", "verify", "failed", "passed", "write"},
   by : Browsers \union {"none"}, seen : Secrets \union {0}, rehash : Nat]

LoginTypes ==
  /\ password \in Nat /\ secret \in Secrets \union {0} /\ lastStep \in 0..3
  /\ enrol \in [Browsers -> Secrets \union {0}]
  /\ attempt \in [Attempts -> AttemptShape]
  /\ \A r \in Attempts : attempt[r].at \in {"idle", "passed"} => attempt[r].op = "none"

\* A code that was accepted is not after the step that is remembered.
SpentIsBehind == \A c \in spent : c[2] \in 0..lastStep

BudgetTypes ==
  /\ fails \in Seq(1..Window) /\ Rises(fails)
  /\ guesses \in Seq(1..Window) /\ Rises(guesses)
  /\ lifted \in 0..Window /\ lost \in Nat

\* Those whose wrong guess is still to be recorded, and those past the
\* throttle whose guess can be wrong yet.
Failing == {r \in Attempts : attempt[r].at = "failed"}
InFlight == {r \in Attempts : attempt[r].at \in {"failed", "verify"}}

\* The steps by what they do to the budget.
NothingCounts == UNCHANGED budget /\ Failing' = Failing /\ InFlight' \subseteq InFlight
LetIn == ~accountLock /\ UNCHANGED budget /\ Failing' = Failing
Guessed(r) ==
  /\ r \in InFlight \ Failing
  /\ Failing' = Failing \union {r} /\ InFlight' = InFlight
  /\ guesses' = Append(guesses, Window) /\ UNCHANGED <<fails, lifted, lost>>
Recorded(r) ==
  /\ r \in Failing
  /\ Failing' = Failing \ {r} /\ InFlight' = InFlight \ {r}
  /\ fails' = Append(fails, Window) /\ UNCHANGED <<guesses, lifted, lost>>
Unwritten(r) ==
  /\ r \in Failing
  /\ Failing' = Failing \ {r} /\ InFlight' = InFlight \ {r}
  /\ lost' = lost + 1 /\ UNCHANGED <<fails, guesses, lifted>>
SignedIn ==
  /\ fails' = <<>> \/ UNCHANGED fails
  /\ guesses' = <<>> /\ lost' = 0 /\ UNCHANGED lifted
  /\ Failing' = Failing /\ InFlight' \subseteq InFlight
Lifted ==
  /\ lifted = 0 /\ fails' = <<>> /\ lifted' = Window /\ UNCHANGED <<guesses, lost>>
  /\ Failing' = Failing /\ InFlight' = InFlight
Waited ==
  /\ fails' = Aged(fails) /\ guesses' = Aged(guesses)
  /\ lifted' = IF lifted = 0 THEN 0 ELSE lifted - 1
  /\ lost' = IF guesses' = <<>> THEN 0 ELSE lost
  /\ Failing' = Failing /\ InFlight' = InFlight

BudgetStep ==
  \/ NothingCounts \/ LetIn \/ SignedIn \/ Lifted \/ Waited
  \/ \E r \in Attempts : Guessed(r) \/ Recorded(r) \/ Unwritten(r)

\* One attempt moves, and with it what is in flight.
LEMMA OneAttemptMoves ==
  ASSUME attempt \in [Attempts -> AttemptShape], NEW r \in Attempts, NEW q \in AttemptShape,
         attempt' = [attempt EXCEPT ![r] = q],
         q.at \in {"idle", "passed"} => q.op = "none",
         \A x \in Attempts : attempt[x].at \in {"idle", "passed"} => attempt[x].op = "none"
  PROVE  /\ attempt' \in [Attempts -> AttemptShape]
         /\ \A x \in Attempts : attempt'[x].at \in {"idle", "passed"} => attempt'[x].op = "none"
         /\ Failing' = IF q.at = "failed" THEN Failing \union {r} ELSE Failing \ {r}
         /\ InFlight' = IF q.at \in {"failed", "verify"} THEN InFlight \union {r} ELSE InFlight \ {r}
<1>1. attempt' \in [Attempts -> AttemptShape]
  OBVIOUS
<1>2. \A x \in Attempts : attempt'[x] = IF x = r THEN q ELSE attempt[x]
  OBVIOUS
<1>3. \A x \in Attempts : attempt'[x].at \in {"idle", "passed"} => attempt'[x].op = "none"
  BY <1>2
<1>4. Failing' = {x \in Attempts : attempt'[x].at = "failed"}
  BY DEF Failing
<1>5. InFlight' = {x \in Attempts : attempt'[x].at \in {"failed", "verify"}}
  BY DEF InFlight
<1>6. Failing' = IF q.at = "failed" THEN Failing \union {r} ELSE Failing \ {r}
  BY <1>2, <1>4 DEF Failing
<1>7. InFlight' = IF q.at \in {"failed", "verify"} THEN InFlight \union {r} ELSE InFlight \ {r}
  BY <1>2, <1>5 DEF InFlight
<1> QED
  BY <1>1, <1>3, <1>6, <1>7

\* An attempt that is given up, and one that is asked for.
LEMMA NoAttemptIsOne == NoAttempt \in AttemptShape /\ NoAttempt.at = "idle" /\ NoAttempt.op = "none"
BY DEF NoAttempt, AttemptShape

\* A form that is asked for, and one that has been given up.
LEMMA AskedFor ==
  ASSUME LoginTypes, NEW r \in Attempts, NEW b \in Browsers, NEW op, NEW at, NEW s \in Secrets \union {0},
         op \in {"login", "code", "recover", "password", "disable", "confirm"}, at \in {"asked", "write"},
         Ask(r, b, op, at, s)
  PROVE  /\ attempt' \in [Attempts -> AttemptShape]
         /\ \A x \in Attempts : attempt'[x].at \in {"idle", "passed"} => attempt'[x].op = "none"
         /\ Failing' = Failing /\ InFlight' \subseteq InFlight
<1> DEFINE q == [op |-> op, at |-> at, by |-> b, seen |-> s, rehash |-> 0]
<1>1. q \in AttemptShape /\ q.at = at
  BY DEF AttemptShape
<1>2. attempt' = [attempt EXCEPT ![r] = q] /\ attempt[r].at = "idle"
  BY DEF Ask
<1> HIDE DEF q
<1>3. r \notin Failing /\ r \notin InFlight
  BY <1>2 DEF Failing, InFlight
<1>4. q.at \notin {"idle", "passed", "failed", "verify"}
  BY <1>1
<1>5. /\ attempt' \in [Attempts -> AttemptShape]
      /\ \A x \in Attempts : attempt'[x].at \in {"idle", "passed"} => attempt'[x].op = "none"
      /\ Failing' = Failing \ {r} /\ InFlight' = InFlight \ {r}
  BY <1>1, <1>2, <1>4, OneAttemptMoves DEF LoginTypes
<1> QED
  BY <1>3, <1>5

\* An attempt that ends where it is.
LEMMA GivenUp ==
  ASSUME LoginTypes, NEW r \in Attempts, AttemptDone(r)
  PROVE  /\ attempt' \in [Attempts -> AttemptShape]
         /\ \A x \in Attempts : attempt'[x].at \in {"idle", "passed"} => attempt'[x].op = "none"
         /\ Failing' = Failing \ {r} /\ InFlight' = InFlight \ {r}
<1>1. attempt' = [attempt EXCEPT ![r] = NoAttempt]
  BY DEF AttemptDone
<1> QED
  BY <1>1, NoAttemptIsOne, OneAttemptMoves DEF LoginTypes

\* A form that was compared: right, or wrong and still to be recorded.
LEMMA ComparedRight ==
  ASSUME LoginTypes, NEW r \in Attempts, NEW s \in Secrets \union {0}, NEW n \in Nat, Pass(r, s, n)
  PROVE  /\ attempt' \in [Attempts -> AttemptShape]
         /\ \A x \in Attempts : attempt'[x].at \in {"idle", "passed"} => attempt'[x].op = "none"
         /\ Failing' = Failing \ {r} /\ InFlight' \subseteq InFlight
<1> DEFINE q == [op |-> "none", at |-> "passed", by |-> attempt[r].by, seen |-> s, rehash |-> n]
<1>1. attempt[r].by \in Browsers \union {"none"}
  BY DEF LoginTypes, AttemptShape
<1>2. q \in AttemptShape /\ q.at = "passed" /\ q.op = "none"
  BY <1>1 DEF AttemptShape
<1>3. attempt' = [attempt EXCEPT ![r] = q]
  BY DEF Pass
<1> HIDE DEF q
<1> QED
  BY <1>2, <1>3, OneAttemptMoves DEF LoginTypes

\* An attempt whose password was compared and found wrong.
LEMMA ComparedWrong ==
  ASSUME LoginTypes, NEW r \in Attempts, Failed(r), attempt[r].at = "verify", UNCHANGED <<fails, lifted, lost>>
  PROVE  /\ attempt' \in [Attempts -> AttemptShape]
         /\ \A x \in Attempts : attempt'[x].at \in {"idle", "passed"} => attempt'[x].op = "none"
         /\ Guessed(r)
<1> DEFINE q == [NoAttempt EXCEPT !.at = "failed"]
<1>1. q = [op |-> "none", at |-> "failed", by |-> "none", seen |-> 0, rehash |-> 0]
  BY DEF NoAttempt
<1>2. q \in AttemptShape /\ q.at = "failed" /\ q.op = "none"
  BY <1>1 DEF AttemptShape
<1>3. attempt' = [attempt EXCEPT ![r] = q] /\ guesses' = Append(guesses, Window)
  BY DEF Failed
<1> HIDE DEF q
<1>4. /\ attempt' \in [Attempts -> AttemptShape]
      /\ \A x \in Attempts : attempt'[x].at \in {"idle", "passed"} => attempt'[x].op = "none"
      /\ Failing' = Failing \union {r} /\ InFlight' = InFlight \union {r}
  BY <1>2, <1>3, OneAttemptMoves DEF LoginTypes
<1>5. r \in InFlight \ Failing
  BY DEF Failing, InFlight
<1> QED
  BY <1>3, <1>4, <1>5 DEF Guessed

\* Every step of the sign-in keeps the types, and is a step of the budget.
LoginStep == LoginTypes' /\ BudgetStep

\* The steps of one attempt.
LEMMA AttemptSteps ==
  ASSUME LoginTypes, NEW r \in Attempts
  PROVE  /\ CheckLoginThrottle(r) \/ recordFailedLogin(r) => LoginStep
         /\ VerifyPassword(r) \/ Rehash(r) \/ Passed(r) => LoginStep
         /\ submitSecondFactor(r) \/ UseRecoveryCode(r) => LoginStep
         /\ savePassword(r) \/ disableTOTP(r) \/ SetTOTPSecret(r) => LoginStep
<1> USE DEF account, budget
<1>0. attempt[r] \in AttemptShape /\ attempt[r].seen \in Secrets \union {0} /\ attempt[r].rehash \in Nat
  BY DEF LoginTypes, AttemptShape
<1>1. ASSUME CheckLoginThrottle(r), ~accountLock, attempt' = [attempt EXCEPT ![r].at = "verify"]
      PROVE  LoginStep
  <2> DEFINE q == [attempt[r] EXCEPT !.at = "verify"]
  <2>1. q \in AttemptShape /\ q.at = "verify"
    BY <1>0 DEF AttemptShape
  <2>2. attempt' = [attempt EXCEPT ![r] = q]
    BY <1>1
  <2> HIDE DEF q
  <2>3. r \notin Failing
    BY <1>1 DEF CheckLoginThrottle, Failing
  <2>4. /\ attempt' \in [Attempts -> AttemptShape] /\ Failing' = Failing \ {r}
        /\ \A x \in Attempts : attempt'[x].at \in {"idle", "passed"} => attempt'[x].op = "none"
    <3>1. q.at \notin {"idle", "passed", "failed"}
      BY <2>1
    <3> QED
      BY <2>1, <2>2, <3>1, OneAttemptMoves DEF LoginTypes
  <2>5. LoginTypes'
    BY <1>1, <2>4 DEF CheckLoginThrottle, LoginTypes
  <2>6. LetIn
    BY <1>1, <2>3, <2>4 DEF CheckLoginThrottle, LetIn
  <2> QED
    BY <2>5, <2>6 DEF LoginStep, BudgetStep
<1>2. ASSUME CheckLoginThrottle(r), accountLock, AttemptDone(r)
      PROVE  LoginStep
  <2>1. r \notin Failing
    BY <1>2 DEF CheckLoginThrottle, Failing
  <2>2. LoginTypes'
    BY <1>2, GivenUp DEF CheckLoginThrottle, LoginTypes
  <2>3. NothingCounts
    BY <1>2, <2>1, GivenUp DEF CheckLoginThrottle, NothingCounts
  <2> QED
    BY <2>2, <2>3 DEF LoginStep, BudgetStep
<1>3. ASSUME recordFailedLogin(r) PROVE LoginStep
  <2>1. r \in Failing
    BY <1>3 DEF recordFailedLogin, Failing
  <2>2. AttemptDone(r)
    BY <1>3 DEF recordFailedLogin
  <2>3. LoginTypes'
    BY <1>3, <2>2, GivenUp DEF recordFailedLogin, LoginTypes
  <2>4. Recorded(r) \/ Unwritten(r)
    BY <1>3, <2>1, <2>2, GivenUp DEF recordFailedLogin, Recorded, Unwritten
  <2> QED
    BY <2>3, <2>4 DEF LoginStep, BudgetStep
<1>4. ASSUME VerifyPassword(r) PROVE LoginStep
  <2>1. r \notin Failing
    BY <1>4 DEF VerifyPassword, Failing
  <2>2. UNCHANGED account /\ UNCHANGED <<fails, lifted, lost, enrol>>
    BY <1>4 DEF VerifyPassword
  <2>3. ASSUME Pass(r, secret, IF weakHash THEN password ELSE 0), UNCHANGED guesses PROVE LoginStep
    <3>1. secret \in Secrets \union {0} /\ (IF weakHash THEN password ELSE 0) \in Nat
      BY DEF LoginTypes
    <3>2. /\ attempt' \in [Attempts -> AttemptShape]
          /\ \A x \in Attempts : attempt'[x].at \in {"idle", "passed"} => attempt'[x].op = "none"
          /\ Failing' = Failing \ {r} /\ InFlight' \subseteq InFlight
      BY <2>3, <3>1, ComparedRight
    <3>3. LoginTypes' /\ NothingCounts
      BY <2>1, <2>2, <2>3, <3>2 DEF LoginTypes, NothingCounts
    <3> QED
      BY <3>3 DEF LoginStep, BudgetStep
  <2>4. ASSUME Failed(r) PROVE LoginStep
    <3>1. LoginTypes' /\ Guessed(r)
      BY <1>4, <2>2, <2>4, ComparedWrong DEF LoginTypes, VerifyPassword
    <3> QED
      BY <3>1 DEF LoginStep, BudgetStep
  <2> QED
    BY <1>4, <2>3, <2>4 DEF VerifyPassword
<1>5. ASSUME Rehash(r) PROVE LoginStep
  <2> DEFINE q == [attempt[r] EXCEPT !.rehash = 0]
  <2>1. q \in AttemptShape /\ q.at = "passed" /\ q.op = "none"
    BY <1>0, <1>5 DEF AttemptShape, Rehash, LoginTypes
  <2>2. attempt' = [attempt EXCEPT ![r] = q]
    BY <1>5 DEF Rehash
  <2> HIDE DEF q
  <2>3. r \notin Failing /\ r \notin InFlight
    BY <1>5 DEF Rehash, Failing, InFlight
  <2>4. /\ attempt' \in [Attempts -> AttemptShape]
        /\ Failing' = Failing \ {r} /\ InFlight' = InFlight \ {r}
        /\ \A x \in Attempts : attempt'[x].at \in {"idle", "passed"} => attempt'[x].op = "none"
    <3>1. q.at \notin {"failed", "verify"}
      BY <2>1
    <3> QED
      BY <2>1, <2>2, <3>1, OneAttemptMoves DEF LoginTypes
  <2>5. LoginTypes' /\ NothingCounts
    BY <1>0, <1>5, <2>3, <2>4 DEF Rehash, LoginTypes, NothingCounts
  <2> QED
    BY <2>5 DEF LoginStep, BudgetStep
<1>6. ASSUME Passed(r) PROVE LoginStep
  <2>1. r \notin Failing /\ AttemptDone(r) /\ UNCHANGED <<password, secret, lastStep, enrol>>
    BY <1>6 DEF Passed, completeLogin, Failing
  <2>2. LoginTypes'
    BY <2>1, GivenUp DEF LoginTypes
  <2>3. NothingCounts \/ SignedIn
    BY <1>6, <2>1, GivenUp DEF Passed, completeLogin, ClearLoginFailures, NothingCounts, SignedIn
  <2> QED
    BY <2>2, <2>3 DEF LoginStep, BudgetStep
<1>7. ASSUME submitSecondFactor(r) PROVE LoginStep
  <2>1. r \notin Failing
    BY <1>7 DEF submitSecondFactor, Failing
  <2>2. UNCHANGED <<password, secret, enrol, fails, lifted, lost>>
    BY <1>7 DEF submitSecondFactor
  <2>3. ASSUME NEW o \in Offsets, VerifyTOTP(attempt[r].seen, o), Pass(r, 0, 0), UNCHANGED guesses PROVE LoginStep
    <3>1. lastStep' \in 0..3
      BY <2>3 DEF VerifyTOTP, Offsets
    <3>2. /\ attempt' \in [Attempts -> AttemptShape]
          /\ \A x \in Attempts : attempt'[x].at \in {"idle", "passed"} => attempt'[x].op = "none"
          /\ Failing' = Failing \ {r} /\ InFlight' \subseteq InFlight
      BY <2>3, ComparedRight
    <3>3. LoginTypes' /\ NothingCounts
      BY <2>1, <2>2, <2>3, <3>1, <3>2 DEF LoginTypes, NothingCounts
    <3> QED
      BY <3>3 DEF LoginStep, BudgetStep
  <2>4. ASSUME Failed(r), UNCHANGED lastStep PROVE LoginStep
    <3>1. LoginTypes' /\ Guessed(r)
      BY <1>7, <2>2, <2>4, ComparedWrong DEF LoginTypes, submitSecondFactor
    <3> QED
      BY <3>1 DEF LoginStep, BudgetStep
  <2> QED
    BY <1>7, <2>3, <2>4 DEF submitSecondFactor
<1>8. ASSUME UseRecoveryCode(r) PROVE LoginStep
  <2>1. r \notin Failing
    BY <1>8 DEF UseRecoveryCode, Failing
  <2>2. UNCHANGED <<enrol, fails, lifted, lost>>
    BY <1>8 DEF UseRecoveryCode
  <2>3. ASSUME password' = NewPassword, (secret' = 0 /\ lastStep' = 0) \/ UNCHANGED <<secret, lastStep>>,
               Pass(r, secret', 0), UNCHANGED guesses
        PROVE  LoginStep
    <3>1. password' \in Nat /\ secret' \in Secrets \union {0} /\ lastStep' \in 0..3
      BY <2>3 DEF LoginTypes, NewPassword
    <3>2. /\ attempt' \in [Attempts -> AttemptShape]
          /\ \A x \in Attempts : attempt'[x].at \in {"idle", "passed"} => attempt'[x].op = "none"
          /\ Failing' = Failing \ {r} /\ InFlight' \subseteq InFlight
      BY <2>3, <3>1, ComparedRight
    <3>3. LoginTypes' /\ NothingCounts
      BY <2>1, <2>2, <2>3, <3>1, <3>2 DEF LoginTypes, NothingCounts
    <3> QED
      BY <3>3 DEF LoginStep, BudgetStep
  <2>4. ASSUME Failed(r), UNCHANGED account PROVE LoginStep
    <3>1. LoginTypes' /\ Guessed(r)
      BY <1>8, <2>2, <2>4, ComparedWrong DEF LoginTypes, UseRecoveryCode
    <3> QED
      BY <3>1 DEF LoginStep, BudgetStep
  <2> QED
    BY <1>8, <2>3, <2>4 DEF UseRecoveryCode
<1>9. ASSUME savePassword(r) \/ disableTOTP(r) \/ SetTOTPSecret(r) PROVE LoginStep
  <2>1. r \notin Failing /\ AttemptDone(r) /\ UNCHANGED <<lastStep, budget>>
    BY <1>9 DEF savePassword, disableTOTP, SetTOTPSecret, Failing
  <2>2. password' \in Nat
    BY <1>9 DEF savePassword, disableTOTP, SetTOTPSecret, LoginTypes, NewPassword
  <2>3. secret' \in Secrets \union {0}
    BY <1>0, <1>9 DEF savePassword, disableTOTP, SetTOTPSecret, LoginTypes
  <2>4. enrol' \in [Browsers -> Secrets \union {0}]
    BY <1>9 DEF savePassword, disableTOTP, SetTOTPSecret, LoginTypes
  <2>5. LoginTypes'
    BY <2>1, <2>2, <2>3, <2>4, GivenUp DEF LoginTypes
  <2>6. NothingCounts
    BY <2>1, GivenUp DEF NothingCounts
  <2> QED
    BY <2>5, <2>6 DEF LoginStep, BudgetStep
<1>10. CheckLoginThrottle(r) => LoginStep
  BY <1>1, <1>2 DEF CheckLoginThrottle
<1> QED
  BY <1>3, <1>4, <1>5, <1>6, <1>7, <1>8, <1>9, <1>10

\* The steps of a browser.
LEMMA BrowserSteps ==
  ASSUME LoginTypes, NEW b \in Browsers
  PROVE  /\ logoutHandler(b) \/ regenerateRecoveryCodes(b) \/ beginTOTP(b) \/ cancelTOTP(b) => LoginStep
         /\ \A r \in Attempts :
              submitLogin(r, b) \/ secondFactorHandler(r, b) \/ submitRecovery(r, b) => LoginStep
         /\ \A r \in Attempts : saveAccount(r, b) \/ confirmTOTP(r, b) => LoginStep
<1> USE DEF account, budget
<1>0. 0 \in Secrets \union {0} /\ secret \in Secrets \union {0} /\ enrol[b] \in Secrets \union {0}
  BY DEF LoginTypes
<1>1. ASSUME logoutHandler(b) \/ regenerateRecoveryCodes(b) \/ beginTOTP(b) \/ cancelTOTP(b) PROVE LoginStep
  <2>1. UNCHANGED <<password, secret, lastStep, budget, attempt>>
    BY <1>1 DEF logoutHandler, regenerateRecoveryCodes, storeRecoveryCodes, beginTOTP, cancelTOTP
  <2>2. enrol' \in [Browsers -> Secrets \union {0}]
    BY <1>1 DEF logoutHandler, LogOut, regenerateRecoveryCodes, storeRecoveryCodes, beginTOTP, cancelTOTP,
                LoginTypes
  <2>3. LoginTypes' /\ NothingCounts
    BY <2>1, <2>2 DEF LoginTypes, NothingCounts, Failing, InFlight
  <2> QED
    BY <2>3 DEF LoginStep, BudgetStep
<1>2. ASSUME NEW r \in Attempts, submitLogin(r, b) \/ submitRecovery(r, b) PROVE LoginStep
  <2>1. Ask(r, b, "login", "asked", 0) \/ Ask(r, b, "recover", "asked", 0)
    BY <1>2 DEF submitLogin, submitRecovery
  <2>2. /\ attempt' \in [Attempts -> AttemptShape]
        /\ \A x \in Attempts : attempt'[x].at \in {"idle", "passed"} => attempt'[x].op = "none"
        /\ Failing' = Failing /\ InFlight' \subseteq InFlight
    BY <1>0, <2>1, AskedFor
  <2>3. LoginTypes' /\ NothingCounts
    BY <1>2, <2>2 DEF submitLogin, submitRecovery, LoginTypes, NothingCounts
  <2> QED
    BY <2>3 DEF LoginStep, BudgetStep
<1>3. ASSUME NEW r \in Attempts, secondFactorHandler(r, b) PROVE LoginStep
  <2>1. UNCHANGED <<account, budget>>
    BY <1>3 DEF secondFactorHandler
  <2>2. ASSUME Ask(r, b, "code", "asked", secret), UNCHANGED enrol PROVE LoginStep
    <3>1. /\ attempt' \in [Attempts -> AttemptShape]
          /\ \A x \in Attempts : attempt'[x].at \in {"idle", "passed"} => attempt'[x].op = "none"
          /\ Failing' = Failing /\ InFlight' \subseteq InFlight
      BY <1>0, <2>2, AskedFor
    <3>2. LoginTypes' /\ NothingCounts
      BY <2>1, <2>2, <3>1 DEF LoginTypes, NothingCounts
    <3> QED
      BY <3>2 DEF LoginStep, BudgetStep
  <2>3. ASSUME LogOut(b), UNCHANGED attempt PROVE LoginStep
    <3>1. enrol' \in [Browsers -> Secrets \union {0}]
      BY <2>3 DEF LogOut, LoginTypes
    <3>2. LoginTypes' /\ NothingCounts
      BY <2>1, <2>3, <3>1 DEF LoginTypes, NothingCounts, Failing, InFlight
    <3> QED
      BY <3>2 DEF LoginStep, BudgetStep
  <2> QED
    BY <1>3, <2>2, <2>3 DEF secondFactorHandler
<1>4. ASSUME NEW r \in Attempts, saveAccount(r, b) PROVE LoginStep
  <2>1. Ask(r, b, "password", "write", 0) \/ Ask(r, b, "disable", "write", 0)
    BY <1>4 DEF saveAccount
  <2>2. /\ attempt' \in [Attempts -> AttemptShape]
        /\ \A x \in Attempts : attempt'[x].at \in {"idle", "passed"} => attempt'[x].op = "none"
        /\ Failing' = Failing /\ InFlight' \subseteq InFlight
    BY <1>0, <2>1, AskedFor
  <2>3. LoginTypes' /\ NothingCounts
    BY <1>4, <2>2 DEF saveAccount, LoginTypes, NothingCounts
  <2> QED
    BY <2>3 DEF LoginStep, BudgetStep
<1>5. ASSUME NEW r \in Attempts, confirmTOTP(r, b) PROVE LoginStep
  <2>1. PICK o \in Offsets : VerifyTOTP(enrol[b], o) /\ Ask(r, b, "confirm", "write", enrol[b])
    BY <1>5 DEF confirmTOTP
  <2>2. lastStep' \in 0..3
    BY <2>1 DEF VerifyTOTP, Offsets
  <2>3. /\ attempt' \in [Attempts -> AttemptShape]
        /\ \A x \in Attempts : attempt'[x].at \in {"idle", "passed"} => attempt'[x].op = "none"
        /\ Failing' = Failing /\ InFlight' \subseteq InFlight
    BY <1>0, <2>1, AskedFor
  <2>4. LoginTypes' /\ NothingCounts
    BY <1>5, <2>2, <2>3 DEF confirmTOTP, LoginTypes, NothingCounts
  <2> QED
    BY <2>4 DEF LoginStep, BudgetStep
<1> QED
  BY <1>1, <1>2, <1>3, <1>4, <1>5

\* Every step of the model.
LEMMA LoginSteps == LoginTypes /\ [LoginNext]_loginVars => LoginStep
<1> SUFFICES ASSUME LoginTypes, [LoginNext]_loginVars PROVE LoginStep
  OBVIOUS
<1> USE DEF account, budget
<1>1. CASE LoginTick
  <2>1. UNCHANGED <<password, secret, enrol, attempt>>
    BY <1>1 DEF LoginTick
  <2>2. lastStep' \in 0..3
    BY <1>1 DEF LoginTick, LoginTypes
  <2>3. LoginTypes' /\ Waited
    BY <1>1, <2>1, <2>2 DEF LoginTick, LoginTypes, Waited, Failing, InFlight
  <2> QED
    BY <2>3 DEF LoginStep, BudgetStep
<1>2. CASE liftLoginLock
  <2>1. LoginTypes' /\ Lifted
    BY <1>2 DEF liftLoginLock, UnlockLogin, LoginTypes, Lifted, Failing, InFlight
  <2> QED
    BY <2>1 DEF LoginStep, BudgetStep
<1>3. CASE issueMemberRecovery
  <2>1. LoginTypes' /\ NothingCounts
    BY <1>3 DEF issueMemberRecovery, IssueRecoveryCode, storeRecoveryCodes, LoginTypes, NothingCounts, Failing,
                InFlight
  <2> QED
    BY <2>1 DEF LoginStep, BudgetStep
<1>4. ASSUME NEW r \in Attempts,
             \/ CheckLoginThrottle(r) \/ recordFailedLogin(r) \/ VerifyPassword(r) \/ Rehash(r)
             \/ Passed(r) \/ submitSecondFactor(r) \/ UseRecoveryCode(r)
             \/ savePassword(r) \/ disableTOTP(r) \/ SetTOTPSecret(r)
      PROVE  LoginStep
  BY <1>4, AttemptSteps
<1>5. ASSUME NEW b \in Browsers,
             \/ logoutHandler(b) \/ regenerateRecoveryCodes(b) \/ beginTOTP(b) \/ cancelTOTP(b)
             \/ \E r \in Attempts :
                  \/ submitLogin(r, b) \/ secondFactorHandler(r, b) \/ submitRecovery(r, b)
                  \/ saveAccount(r, b) \/ confirmTOTP(r, b)
      PROVE  LoginStep
  BY <1>5, BrowserSteps
<1>6. CASE UNCHANGED loginVars
  <2>1. LoginTypes' /\ NothingCounts
    BY <1>6 DEF loginVars, LoginTypes, NothingCounts, Failing, InFlight
  <2> QED
    BY <2>1 DEF LoginStep, BudgetStep
<1> QED
  BY <1>1, <1>2, <1>3, <1>4, <1>5, <1>6 DEF LoginNext

\* Nobody has tried anything when the panel starts.
LEMMA LoginStarts == LoginInit => LoginTypes /\ SpentIsBehind /\ BudgetTypes /\ Failing = {} /\ InFlight = {}
<1> SUFFICES ASSUME LoginInit PROVE LoginTypes /\ SpentIsBehind /\ BudgetTypes /\ Failing = {} /\ InFlight = {}
  OBVIOUS
<1> USE LoginAssumption
<1>1. attempt \in [Attempts -> AttemptShape] /\ \A r \in Attempts : attempt[r].at = "idle" /\ attempt[r].op = "none"
  BY NoAttemptIsOne DEF LoginInit
<1>2. enrol \in [Browsers -> Secrets \union {0}]
  BY DEF LoginInit
<1>3. LoginTypes
  BY <1>1, <1>2 DEF LoginInit, LoginTypes
<1>4. fails = <<>> /\ guesses = <<>> /\ lost = 0 /\ lifted \in 0..Window
  BY DEF LoginInit
<1>5. BudgetTypes
  BY <1>4 DEF BudgetTypes, Rises
<1> QED
  BY <1>1, <1>3, <1>5 DEF LoginInit, SpentIsBehind, Failing, InFlight

\* What is remembered of the accepted codes never falls behind them.
LEMMA SpentStaysBehind == LoginTypes /\ SpentIsBehind /\ [LoginNext]_loginVars => SpentIsBehind'
<1> SUFFICES ASSUME LoginTypes, SpentIsBehind, [LoginNext]_loginVars PROVE SpentIsBehind'
  OBVIOUS
<1> USE DEF account, budget
<1>1. lastStep \in 0..3
  BY DEF LoginTypes
<1>2. CASE LoginTick
  <2> SUFFICES ASSUME NEW c \in spent' PROVE c[2] \in 0..lastStep'
    BY DEF SpentIsBehind
  <2>1. c \in Secrets \X Offsets /\ <<c[1], c[2] + 1>> \in spent
    BY <1>2 DEF LoginTick
  <2>2. c[2] \in 1..3 /\ c[2] + 1 <= lastStep
    BY <2>1 DEF SpentIsBehind, Offsets
  <2>3. lastStep' = lastStep - 1
    BY <1>1, <1>2, <2>2 DEF LoginTick
  <2> QED
    BY <1>1, <2>2, <2>3
<1>3. ASSUME NEW s, NEW o \in Offsets, VerifyTOTP(s, o) PROVE SpentIsBehind'
  <2>1. lastStep' = o /\ o > lastStep /\ o \in 1..3
    BY <1>3 DEF VerifyTOTP, StepIsFresh, Offsets
  <2> SUFFICES ASSUME NEW c \in spent' PROVE c[2] \in 0..lastStep'
    BY DEF SpentIsBehind
  <2>2. CASE c = <<s, o>>
    BY <2>1, <2>2
  <2>3. CASE c \in spent
    <3>1. c[2] \in 0..lastStep
      BY <2>3 DEF SpentIsBehind
    <3> QED
      BY <1>1, <2>1, <3>1
  <2> QED
    BY <1>3, <2>2, <2>3 DEF VerifyTOTP
<1>4. ASSUME UNCHANGED <<lastStep, spent>> PROVE SpentIsBehind'
  BY <1>4 DEF SpentIsBehind
<1>5. ASSUME NEW r \in Attempts, submitSecondFactor(r) PROVE SpentIsBehind'
  BY <1>3, <1>4, <1>5 DEF submitSecondFactor
<1>6. ASSUME NEW r \in Attempts, UseRecoveryCode(r) PROVE SpentIsBehind'
  <2>1. spent' = {} \/ UNCHANGED <<lastStep, spent>>
    BY <1>6 DEF UseRecoveryCode
  <2> QED
    BY <1>4, <2>1 DEF SpentIsBehind
<1>7. ASSUME NEW b \in Browsers, NEW r \in Attempts, confirmTOTP(r, b) PROVE SpentIsBehind'
  BY <1>3, <1>7 DEF confirmTOTP
<1>8. ASSUME NEW r \in Attempts,
             \/ CheckLoginThrottle(r) \/ recordFailedLogin(r) \/ VerifyPassword(r) \/ Rehash(r)
             \/ Passed(r) \/ savePassword(r) \/ disableTOTP(r) \/ SetTOTPSecret(r)
      PROVE  UNCHANGED <<lastStep, spent>>
  BY <1>8 DEF CheckLoginThrottle, recordFailedLogin, VerifyPassword, Rehash, Passed, completeLogin, savePassword,
              disableTOTP, SetTOTPSecret
<1>9. ASSUME NEW b \in Browsers,
             \/ logoutHandler(b) \/ regenerateRecoveryCodes(b) \/ beginTOTP(b) \/ cancelTOTP(b)
             \/ \E r \in Attempts :
                  submitLogin(r, b) \/ secondFactorHandler(r, b) \/ submitRecovery(r, b) \/ saveAccount(r, b)
      PROVE  UNCHANGED <<lastStep, spent>>
  BY <1>9 DEF logoutHandler, regenerateRecoveryCodes, storeRecoveryCodes, beginTOTP, cancelTOTP, submitLogin,
              secondFactorHandler, submitRecovery, saveAccount
<1>10. ASSUME liftLoginLock \/ issueMemberRecovery \/ UNCHANGED loginVars
       PROVE  UNCHANGED <<lastStep, spent>>
  BY <1>10 DEF liftLoginLock, UnlockLogin, issueMemberRecovery, IssueRecoveryCode, storeRecoveryCodes, loginVars
<1> QED
  BY <1>2, <1>4, <1>5, <1>6, <1>7, <1>8, <1>9, <1>10 DEF LoginNext

\* A code that is taken is after every code that was taken before.
LEMMA TakenIsFresh ==
  ASSUME LoginTypes, SpentIsBehind, NEW s, NEW o \in Offsets, VerifyTOTP(s, o)
  PROVE  <<s, lastStep'>> \notin spent
<1>1. lastStep' = o /\ o > lastStep /\ lastStep \in 0..3 /\ o \in 1..3
  BY DEF VerifyTOTP, StepIsFresh, Offsets, LoginTypes
<1>2. o \notin 0..lastStep
  BY <1>1
<1> QED
  BY <1>1, <1>2 DEF SpentIsBehind

\* The two things CodesAreSpent says of an attempt.
SpentOnce(r) ==
  /\ attempt[r].op = "code" /\ attempt'[r].at = "passed" => <<attempt[r].seen, lastStep'>> \notin spent
  /\ attempt'[r].op = "confirm" /\ attempt[r].at = "idle" => <<attempt'[r].seen, lastStep'>> \notin spent

\* Nothing is accepted by a step that leaves an attempt alone, or that makes
\* of it neither a code that passed nor a factor that is confirmed.
LEMMA LeftAlone ==
  ASSUME LoginTypes, NEW x \in Attempts, attempt'[x] = attempt[x]
  PROVE  SpentOnce(x)
BY DEF LoginTypes, SpentOnce

\* Every step of an attempt.
LEMMA StepsSpendOnce == LoginTypes /\ SpentIsBehind /\ [LoginNext]_loginVars => \A x \in Attempts : SpentOnce(x)
<1> SUFFICES ASSUME LoginTypes, SpentIsBehind, [LoginNext]_loginVars, NEW x \in Attempts PROVE SpentOnce(x)
  OBVIOUS
<1>0. attempt \in [Attempts -> AttemptShape]
  BY DEF LoginTypes
<1>1. ASSUME UNCHANGED attempt PROVE SpentOnce(x)
  BY <1>1, LeftAlone
<1>2. ASSUME NEW r \in Attempts, NEW q, attempt' = [attempt EXCEPT ![r] = q],
             q.at # "passed" \/ attempt[r].op # "code", q.op # "confirm" \/ attempt[r].at # "idle"
      PROVE  SpentOnce(x)
  <2>1. attempt'[x] = IF x = r THEN q ELSE attempt[x]
    BY <1>0, <1>2
  <2>2. CASE x = r
    BY <1>2, <2>1, <2>2 DEF SpentOnce
  <2>3. CASE x # r
    BY <2>1, <2>3, LeftAlone
  <2> QED
    BY <2>2, <2>3
<1>3. ASSUME NEW r \in Attempts, AttemptDone(r) PROVE SpentOnce(x)
  BY <1>2, <1>3, NoAttemptIsOne DEF AttemptDone
<1>4. ASSUME NEW r \in Attempts, Failed(r), attempt[r].at = "verify" PROVE SpentOnce(x)
  <2>1. [NoAttempt EXCEPT !.at = "failed"].at = "failed"
    BY DEF NoAttempt
  <2> QED
    BY <1>2, <1>4, <2>1 DEF Failed
<1>5. ASSUME NEW r \in Attempts, NEW b, NEW op, NEW at, NEW s, Ask(r, b, op, at, s), op # "confirm", at # "passed"
      PROVE  SpentOnce(x)
  BY <1>2, <1>5 DEF Ask
<1>6. ASSUME NEW r \in Attempts, NEW s, NEW n, Pass(r, s, n), attempt[r].op # "code" PROVE SpentOnce(x)
  BY <1>2, <1>6 DEF Pass
<1>7. ASSUME NEW r \in Attempts, submitSecondFactor(r) PROVE SpentOnce(x)
  <2>1. attempt[r].at = "verify"
    BY <1>7 DEF submitSecondFactor
  <2>2. ASSUME NEW o \in Offsets, VerifyTOTP(attempt[r].seen, o), Pass(r, 0, 0) PROVE SpentOnce(x)
    <3>1. <<attempt[r].seen, lastStep'>> \notin spent
      BY <2>2, TakenIsFresh
    <3>2. CASE x = r
      BY <2>1, <3>1, <3>2 DEF SpentOnce
    <3>3. CASE x # r
      BY <1>0, <2>2, <3>3, LeftAlone DEF Pass
    <3> QED
      BY <3>2, <3>3
  <2> QED
    BY <1>4, <1>7, <2>1, <2>2 DEF submitSecondFactor
<1>8. ASSUME NEW r \in Attempts, NEW b \in Browsers, confirmTOTP(r, b) PROVE SpentOnce(x)
  <2>1. PICK o \in Offsets : VerifyTOTP(enrol[b], o) /\ Ask(r, b, "confirm", "write", enrol[b])
    BY <1>8 DEF confirmTOTP
  <2>2. <<enrol[b], lastStep'>> \notin spent
    BY <2>1, TakenIsFresh
  <2>3. CASE x = r
    <3>1. attempt'[r].seen = enrol[b] /\ attempt'[r].at = "write"
      BY <1>0, <2>1 DEF Ask
    <3> QED
      BY <2>2, <2>3, <3>1 DEF SpentOnce
  <2>4. CASE x # r
    BY <1>0, <2>1, <2>4, LeftAlone DEF Ask
  <2> QED
    BY <2>3, <2>4
<1>9. ASSUME NEW r \in Attempts, CheckLoginThrottle(r) PROVE SpentOnce(x)
  <2>1. ASSUME attempt' = [attempt EXCEPT ![r].at = "verify"] PROVE SpentOnce(x)
    <3> DEFINE q == [attempt[r] EXCEPT !.at = "verify"]
    <3>1. q.at = "verify"
      BY <1>0 DEF AttemptShape
    <3>2. attempt[r].at = "asked"
      BY <1>9 DEF CheckLoginThrottle
    <3> QED
      BY <1>2, <2>1, <3>1, <3>2
  <2> QED
    BY <1>3, <1>9, <2>1 DEF CheckLoginThrottle
<1>10. ASSUME NEW r \in Attempts, Rehash(r) PROVE SpentOnce(x)
  <2>1. attempt[r].at = "passed" /\ attempt[r].op = "none" /\ attempt' = [attempt EXCEPT ![r].rehash = 0]
    BY <1>10 DEF Rehash, LoginTypes
  <2> QED
    BY <1>2, <2>1
<1>11. ASSUME NEW r \in Attempts, VerifyPassword(r) PROVE SpentOnce(x)
  BY <1>4, <1>6, <1>11 DEF VerifyPassword
<1>12. ASSUME NEW r \in Attempts, UseRecoveryCode(r) PROVE SpentOnce(x)
  BY <1>4, <1>6, <1>12 DEF UseRecoveryCode
<1>13. ASSUME NEW r \in Attempts,
              recordFailedLogin(r) \/ Passed(r) \/ savePassword(r) \/ disableTOTP(r) \/ SetTOTPSecret(r)
       PROVE  SpentOnce(x)
  BY <1>3, <1>13 DEF recordFailedLogin, Passed, completeLogin, savePassword, disableTOTP, SetTOTPSecret
<1>14. ASSUME NEW b \in Browsers, NEW r \in Attempts,
              submitLogin(r, b) \/ secondFactorHandler(r, b) \/ submitRecovery(r, b) \/ saveAccount(r, b)
       PROVE  SpentOnce(x)
  BY <1>1, <1>5, <1>14 DEF submitLogin, secondFactorHandler, submitRecovery, saveAccount
<1>15. ASSUME NEW b \in Browsers,
              logoutHandler(b) \/ regenerateRecoveryCodes(b) \/ beginTOTP(b) \/ cancelTOTP(b)
       PROVE  UNCHANGED attempt
  BY <1>15 DEF logoutHandler, regenerateRecoveryCodes, storeRecoveryCodes, beginTOTP, cancelTOTP
<1>16. ASSUME LoginTick \/ liftLoginLock \/ issueMemberRecovery \/ UNCHANGED loginVars
       PROVE  UNCHANGED attempt
  BY <1>16 DEF LoginTick, liftLoginLock, UnlockLogin, issueMemberRecovery, IssueRecoveryCode, storeRecoveryCodes,
               loginVars
<1> QED
  BY <1>1, <1>7, <1>8, <1>9, <1>10, <1>11, <1>12, <1>13, <1>14, <1>15, <1>16 DEF LoginNext

\* No code of an authenticator is accepted twice (totp.go, VerifyTOTP), by
\* whatever requests it is sent and however long they take.
THEOREM CodesAreSpentOnce == LoginSpec => CodesAreSpent
<1> DEFINE Inv == LoginTypes /\ SpentIsBehind
<1>1. LoginInit => Inv
  BY LoginStarts
<1>2. Inv /\ [LoginNext]_loginVars => Inv'
  BY LoginSteps, SpentStaysBehind DEF LoginStep
<1>3. Inv /\ [LoginNext]_loginVars
      => [\A r \in Attempts :
            /\ attempt[r].op = "code" /\ attempt'[r].at = "passed" => <<attempt[r].seen, lastStep'>> \notin spent
            /\ attempt'[r].op = "confirm" /\ attempt[r].at = "idle"
                 => <<attempt'[r].seen, lastStep'>> \notin spent]_loginVars
  BY StepsSpendOnce DEF SpentOnce
<1> HIDE DEF Inv
<1> QED
  BY <1>1, <1>2, <1>3, PTL DEF LoginSpec, CodesAreSpent

-----------------------------------------------------------------------------
(* How many guesses are compared.                                          *)

\* Every guess after the n-th that still counts has its failure, which
\* counts for at least as long, save the newest c whose failure is still to
\* be recorded.
Covers(f, c, g, n) ==
  \A i \in (n + 1)..Len(g) :
    /\ i + Len(f) + c - Len(g) >= 1
    /\ i + Len(f) + c - Len(g) <= Len(f) => g[i] <= f[i + Len(f) + c - Len(g)]

\* So there are no more of them than there are failures.
LEMMA CoversCounts ==
  ASSUME NEW W \in Nat \ {0}, NEW f \in Seq(1..W), NEW g \in Seq(1..W), NEW c \in Nat, NEW n \in 0..Len(g),
         Covers(f, c, g, n)
  PROVE  Len(g) <= Len(f) + c + n
<1>1. Len(f) \in Nat /\ Len(g) \in Nat
  OBVIOUS
<1>2. CASE n = Len(g)
  BY <1>1, <1>2
<1>3. CASE n # Len(g)
  <2>1. n + 1 \in (n + 1)..Len(g)
    BY <1>1, <1>3
  <2>2. (n + 1) + Len(f) + c - Len(g) >= 1
    BY <2>1 DEF Covers
  <2> QED
    BY <1>1, <2>2
<1> QED
  BY <1>2, <1>3

\* A wrong guess, before its failure is recorded.
LEMMA CoversGuess ==
  ASSUME NEW W \in Nat \ {0}, NEW f \in Seq(1..W), NEW g \in Seq(1..W), NEW c \in Nat, NEW n \in 0..Len(g),
         Covers(f, c, g, n), NEW h \in Seq(1..W), Len(h) = Len(g) + 1, \A i \in DOMAIN g : h[i] = g[i]
  PROVE  Covers(f, c + 1, h, n)
<1>1. Len(f) \in Nat /\ Len(g) \in Nat
  OBVIOUS
<1> SUFFICES ASSUME NEW i \in (n + 1)..Len(h)
             PROVE  /\ i + Len(f) + (c + 1) - Len(h) >= 1
                    /\ i + Len(f) + (c + 1) - Len(h) <= Len(f) => h[i] <= f[i + Len(f) + (c + 1) - Len(h)]
  BY DEF Covers
<1>2. i + Len(f) + (c + 1) - Len(h) = i + Len(f) + c - Len(g)
  BY <1>1
<1>3. CASE i = Len(g) + 1
  BY <1>1, <1>2, <1>3
<1>4. CASE i # Len(g) + 1
  <2>1. i \in (n + 1)..Len(g) /\ i \in DOMAIN g
    BY <1>1, <1>4
  <2>2. /\ i + Len(f) + c - Len(g) >= 1
        /\ i + Len(f) + c - Len(g) <= Len(f) => g[i] <= f[i + Len(f) + c - Len(g)]
    BY <2>1 DEF Covers
  <2> QED
    BY <1>2, <2>1, <2>2
<1> QED
  BY <1>3, <1>4

\* A failure that is recorded counts from now on.
LEMMA CoversRecord ==
  ASSUME NEW W \in Nat \ {0}, NEW f \in Seq(1..W), NEW g \in Seq(1..W), NEW c \in Nat \ {0}, NEW n \in 0..Len(g),
         Covers(f, c, g, n), NEW h \in Seq(1..W), Len(h) = Len(f) + 1, \A i \in DOMAIN f : h[i] = f[i],
         h[Len(f) + 1] = W
  PROVE  Covers(h, c - 1, g, n)
<1>1. Len(f) \in Nat /\ Len(g) \in Nat
  OBVIOUS
<1> SUFFICES ASSUME NEW i \in (n + 1)..Len(g)
             PROVE  /\ i + Len(h) + (c - 1) - Len(g) >= 1
                    /\ i + Len(h) + (c - 1) - Len(g) <= Len(h) => g[i] <= h[i + Len(h) + (c - 1) - Len(g)]
  BY DEF Covers
<1> DEFINE j == i + Len(f) + c - Len(g)
<1>2. i + Len(h) + (c - 1) - Len(g) = j /\ j \in Int
  BY <1>1
<1>3. j >= 1 /\ (j <= Len(f) => g[i] <= f[j])
  BY DEF Covers
<1>4. i \in DOMAIN g /\ g[i] \in 1..W
  BY <1>1
<1> HIDE DEF j
<1>5. ASSUME j <= Len(h) PROVE g[i] <= h[j]
  <2>1. CASE j = Len(f) + 1
    BY <1>4, <2>1
  <2>2. CASE j # Len(f) + 1
    <3>1. j \in DOMAIN f
      BY <1>1, <1>2, <1>3, <1>5, <2>2
    <3>2. j <= Len(f)
      BY <1>1, <3>1
    <3> QED
      BY <1>3, <3>1, <3>2
  <2> QED
    BY <2>1, <2>2
<1> QED
  BY <1>2, <1>3, <1>5

\* What stops counting for a failure has stopped counting for its guess.
LEMMA CoversAge ==
  ASSUME NEW W \in Nat \ {0}, NEW f \in Seq(1..W), NEW g \in Seq(1..W), NEW c \in Nat, NEW n \in 0..Len(g),
         Covers(f, c, g, n), NEW f2 \in Seq(1..W), NEW g2 \in Seq(1..W),
         NEW a \in Nat, NEW b \in Nat, AgedBy(f, a, f2), AgedBy(g, b, g2)
  PROVE  Covers(f2, c, g2, IF n > b THEN n - b ELSE 0)
<1> DEFINE m == IF n > b THEN n - b ELSE 0
<1>1. Len(f) \in Nat /\ Len(g) \in Nat /\ Len(f2) = Len(f) - a /\ Len(g2) = Len(g) - b /\ a <= Len(f) /\ b <= Len(g)
  BY DEF AgedBy
<1>2. m \in Nat /\ m + b >= n
  OBVIOUS
<1> HIDE DEF m
<1>3. ASSUME NEW i \in (m + 1)..Len(g2), NEW j \in Int, j = (i + b) + Len(f) + c - Len(g)
      PROVE  j - a >= 1 /\ (j - a <= Len(f2) => g2[i] <= f2[j - a])
  <2>0. i \in Int /\ i >= m + 1 /\ i <= Len(g) - b
    BY <1>1, <1>2
  <2>1. /\ i + b \in (n + 1)..Len(g) /\ i + b > b /\ i \in 1..(Len(g) - b)
        /\ i + b \in DOMAIN g
    <3>1. i + b >= n + 1 /\ i + b <= Len(g) /\ i >= 1
      BY <1>1, <1>2, <2>0
    <3>2. i + b \in 1..Len(g)
      BY <1>1, <2>0, <3>1
    <3>3. DOMAIN g = 1..Len(g)
      OBVIOUS
    <3> QED
      BY <1>1, <2>0, <3>1, <3>2, <3>3
  <2>2. j >= 1 /\ (j <= Len(f) => g[i + b] <= f[j])
    BY <1>3, <2>1 DEF Covers
  <2>3. g[i + b] \in 1..W
    BY <2>1
  <2>4. g[i + b] > 1 /\ g2[i] = g[i + b] - 1
    BY <2>1 DEF AgedBy
  <2>5. CASE j > Len(f)
    BY <1>1, <2>5
  <2>6. CASE j <= Len(f)
    <3>1. j \in DOMAIN f /\ f[j] \in 1..W
      BY <1>1, <2>2, <2>6
    <3>2. f[j] > 1
      BY <2>2, <2>3, <2>4, <2>6, <3>1
    <3>3. j > a
      BY <3>1, <3>2 DEF AgedBy
    <3>4. j - a \in 1..(Len(f) - a) /\ (j - a) + a = j
      BY <1>1, <2>6, <3>3
    <3>5. f2[j - a] = f[(j - a) + a] - 1
      BY <3>4 DEF AgedBy
    <3>6. f2[j - a] = f[j] - 1
      BY <3>4, <3>5
    <3>7. g[i + b] - 1 <= f[j] - 1
      <4>1. \A x, y \in 1..W : x <= y => x - 1 <= y - 1
        OBVIOUS
      <4>2. g[i + b] <= f[j]
        BY <2>2, <2>6
      <4> QED
        BY <2>3, <3>1, <4>1, <4>2
    <3>8. g2[i] <= f2[j - a]
      BY <2>4, <3>6, <3>7
    <3> QED
      BY <3>3, <3>8
  <2> QED
    BY <1>1, <2>5, <2>6
<1>4. ASSUME NEW i \in (m + 1)..Len(g2)
      PROVE  /\ i + Len(f2) + c - Len(g2) >= 1
             /\ i + Len(f2) + c - Len(g2) <= Len(f2) => g2[i] <= f2[i + Len(f2) + c - Len(g2)]
  <2> DEFINE j == (i + b) + Len(f) + c - Len(g)
  <2>1. j \in Int /\ i + Len(f2) + c - Len(g2) = j - a
    BY <1>1, <1>2
  <2>2. j - a >= 1 /\ (j - a <= Len(f2) => g2[i] <= f2[j - a])
    BY <1>3, <2>1
  <2> QED
    BY <2>1, <2>2
<1>5. Covers(f2, c, g2, m)
  BY <1>4 DEF Covers
<1> QED
  BY <1>5 DEF m

\* One fewer than the limit may have failed when the last of the requests are
\* let in.
Most == MaxFailures - 1 + Cardinality(Attempts)

\* The first n guesses were compared before the lock was lifted, and l of the
\* failures that were not written are among theirs.
Before(n, l) ==
  /\ n <= Most + l /\ l <= lost /\ (lifted = 0 => n = 0)
  /\ \A i \in 1..n : guesses[i] <= lifted
  /\ Covers(fails, Cardinality(Failing) + (lost - l), guesses, n)

BudgetInv ==
  /\ BudgetTypes
  /\ Len(fails) + Cardinality(InFlight) <= Most
  /\ \E n \in 0..Len(guesses), l \in 0..lost : Before(n, l)

\* How many are in flight.
LEMMA InFlightCounts ==
  /\ IsFiniteSet(Failing) /\ IsFiniteSet(InFlight) /\ IsFiniteSet(Attempts)
  /\ Cardinality(Failing) \in Nat /\ Cardinality(InFlight) \in Nat /\ Cardinality(Attempts) \in Nat
  /\ Cardinality(Failing) <= Cardinality(InFlight) /\ Cardinality(InFlight) <= Cardinality(Attempts)
<1>1. Failing \subseteq InFlight /\ InFlight \subseteq Attempts /\ IsFiniteSet(Attempts)
  BY LoginAssumption DEF Failing, InFlight
<1>2. IsFiniteSet(InFlight) /\ Cardinality(InFlight) <= Cardinality(Attempts)
  BY <1>1, FS_Subset
<1>3. IsFiniteSet(Failing) /\ Cardinality(Failing) <= Cardinality(InFlight)
  BY <1>1, <1>2, FS_Subset
<1> QED
  BY <1>1, <1>2, <1>3, FS_CardinalityType

\* As many are in flight after a step.
LEMMA InFlightCountsNext ==
  /\ IsFiniteSet(Failing') /\ IsFiniteSet(InFlight')
  /\ Cardinality(Failing') \in Nat /\ Cardinality(InFlight') \in Nat
  /\ Cardinality(Failing') <= Cardinality(InFlight') /\ Cardinality(InFlight') <= Cardinality(Attempts)
<1>1. Failing' = {r \in Attempts : attempt'[r].at = "failed"}
  BY DEF Failing
<1>2. InFlight' = {r \in Attempts : attempt'[r].at \in {"failed", "verify"}}
  BY DEF InFlight
<1>3. Failing' \subseteq InFlight' /\ InFlight' \subseteq Attempts /\ IsFiniteSet(Attempts)
  BY <1>1, <1>2, LoginAssumption
<1>4. IsFiniteSet(InFlight') /\ Cardinality(InFlight') <= Cardinality(Attempts)
  BY <1>3, FS_Subset
<1>5. IsFiniteSet(Failing') /\ Cardinality(Failing') <= Cardinality(InFlight')
  BY <1>3, <1>4, FS_Subset
<1> QED
  BY <1>3, <1>4, <1>5, FS_CardinalityType

\* The bound, from the invariant.
LEMMA BudgetIsABound == BudgetInv => GuessesBounded
<1> SUFFICES ASSUME BudgetInv PROVE GuessesBounded
  OBVIOUS
<1>1. PICK n \in 0..Len(guesses), l \in 0..lost : Before(n, l)
  BY DEF BudgetInv
<1>2. /\ fails \in Seq(1..Window) /\ guesses \in Seq(1..Window) /\ Window \in Nat \ {0} /\ lifted \in Nat
      /\ lost \in Nat /\ Len(fails) + Cardinality(InFlight) <= Most
  BY LoginAssumption DEF BudgetInv, BudgetTypes
<1>3. Most \in Nat /\ Len(fails) \in Nat /\ Len(guesses) \in Nat /\ n \in Nat /\ l \in Nat /\ l <= lost
  BY <1>2, InFlightCounts, LoginAssumption DEF Most
<1>4. Cardinality(Failing) + (lost - l) \in Nat
  BY <1>2, <1>3, InFlightCounts
<1>5. Len(guesses) <= Len(fails) + (Cardinality(Failing) + (lost - l)) + n
  BY <1>1, <1>2, <1>4, CoversCounts DEF Before
<1>6. Len(guesses) <= Most + (lost - l) + n
  BY <1>2, <1>3, <1>5, InFlightCounts
<1>7. n <= Most + l /\ (lifted = 0 => n = 0)
  BY <1>1 DEF Before
<1>8. Len(guesses) <= (IF lifted > 0 THEN 2 ELSE 1) * Most + lost
  BY <1>2, <1>3, <1>6, <1>7
<1> QED
  BY <1>8 DEF GuessesBounded, Most

\* Every step of the budget keeps the bound.
LEMMA BudgetStaysBounded == BudgetInv /\ BudgetStep => BudgetInv'
<1> SUFFICES ASSUME BudgetInv, BudgetStep PROVE BudgetInv'
  OBVIOUS
<1>0. PICK n \in 0..Len(guesses), l \in 0..lost : Before(n, l)
  BY DEF BudgetInv
<1>1. /\ fails \in Seq(1..Window) /\ guesses \in Seq(1..Window) /\ Window \in Nat \ {0} /\ lifted \in 0..Window
      /\ Rises(fails) /\ Rises(guesses) /\ Len(fails) + Cardinality(InFlight) <= Most /\ lost \in Nat
  BY LoginAssumption DEF BudgetInv, BudgetTypes
<1>2. Most \in Nat /\ Len(fails) \in Nat /\ Len(guesses) \in Nat /\ n \in Nat /\ MaxFailures \in Nat \ {0}
      /\ l \in Nat /\ l <= lost
  BY <1>1, InFlightCounts, LoginAssumption DEF Most
<1> DEFINE c == Cardinality(Failing) + (lost - l)
<1>3. /\ n <= Most + l /\ (lifted = 0 => n = 0) /\ \A i \in 1..n : guesses[i] <= lifted
      /\ Covers(fails, c, guesses, n)
  BY <1>0 DEF Before
<1>14. c \in Nat
  BY <1>1, <1>2, InFlightCounts
<1> HIDE DEF c
<1>4. BudgetInv' <=> /\ BudgetTypes'
                     /\ Len(fails') + Cardinality(InFlight') <= Most
                     /\ \E m \in 0..Len(guesses'), k \in 0..lost' : Before(m, k)'
  BY DEF BudgetInv, Most
<1>5. \A m, k \in Nat :
        Before(m, k)' <=> /\ m <= Most + k /\ k <= lost' /\ (lifted' = 0 => m = 0)
                          /\ \A i \in 1..m : guesses'[i] <= lifted'
                          /\ Covers(fails', Cardinality(Failing') + (lost' - k), guesses', m)
  BY DEF Before, Most, Covers
<1>6. InFlight' \subseteq InFlight => Cardinality(InFlight') <= Cardinality(InFlight)
  BY InFlightCounts, FS_Subset
<1>7. CASE NothingCounts
  <2>1. BudgetTypes'
    BY <1>1, <1>7 DEF NothingCounts, budget, BudgetTypes
  <2>2. Len(fails') + Cardinality(InFlight') <= Most
    BY <1>1, <1>2, <1>6, <1>7, InFlightCounts, InFlightCountsNext DEF NothingCounts, budget
  <2>3. n \in 0..Len(guesses') /\ l \in 0..lost' /\ Before(n, l)'
    BY <1>2, <1>3, <1>5, <1>7 DEF NothingCounts, budget, c
  <2> QED
    BY <1>4, <2>1, <2>2, <2>3
<1>8. CASE LetIn
  <2>1. BudgetTypes'
    BY <1>1, <1>8 DEF LetIn, budget, BudgetTypes
  <2>2. Len(fails') <= MaxFailures - 1
    BY <1>2, <1>8 DEF LetIn, budget, accountLock, accountFailures
  <2>3. Len(fails') + Cardinality(InFlight') <= Most
    BY <1>2, <1>8, <2>2, InFlightCounts, InFlightCountsNext DEF LetIn, budget, Most
  <2>4. n \in 0..Len(guesses') /\ l \in 0..lost' /\ Before(n, l)'
    BY <1>2, <1>3, <1>5, <1>8 DEF LetIn, budget, c
  <2> QED
    BY <1>4, <2>1, <2>3, <2>4
<1>9. CASE SignedIn
  <2>1. /\ fails' = <<>> \/ fails' = fails
        /\ guesses' = <<>> /\ lifted' = lifted /\ lost' = 0 /\ InFlight' \subseteq InFlight
    BY <1>9 DEF SignedIn
  <2>2. /\ fails' \in Seq(1..Window) /\ Rises(fails') /\ Len(fails') <= Len(fails)
        /\ guesses' \in Seq(1..Window) /\ Rises(guesses') /\ Len(guesses') = 0
    <3>1. \A s : s = <<>> => s \in Seq(1..Window) /\ Len(s) = 0 /\ DOMAIN s = {}
      OBVIOUS
    <3>2. \A s : s = <<>> => Rises(s)
      BY <3>1 DEF Rises
    <3>3. guesses' \in Seq(1..Window) /\ Rises(guesses') /\ Len(guesses') = 0
      BY <2>1, <3>1, <3>2
    <3>4. CASE fails' = <<>>
      <4>1. fails' \in Seq(1..Window) /\ Rises(fails') /\ Len(fails') = 0
        BY <3>1, <3>2, <3>4
      <4> QED
        BY <1>2, <3>3, <4>1
    <3>5. CASE fails' = fails
      <4>1. fails' \in Seq(1..Window) /\ Rises(fails') /\ Len(fails') = Len(fails)
        BY <1>1, <3>5
      <4> QED
        BY <1>2, <3>3, <4>1
    <3> QED
      BY <2>1, <3>4, <3>5
  <2>3. BudgetTypes'
    BY <1>1, <2>1, <2>2 DEF BudgetTypes, Rises
  <2>4. Len(fails') + Cardinality(InFlight') <= Most
    <3>1. Len(fails') \in Nat
      BY <2>2
    <3> QED
      BY <1>1, <1>2, <1>6, <2>1, <2>2, <3>1, InFlightCounts, InFlightCountsNext
  <2>5. Covers(fails', Cardinality(Failing') + (lost' - 0), guesses', 0)
    BY <2>2 DEF Covers
  <2>6. 0 \in 0..Len(guesses') /\ 0 \in 0..lost' /\ Before(0, 0)'
    BY <1>2, <1>5, <2>1, <2>2, <2>5
  <2> QED
    BY <1>4, <2>3, <2>4, <2>6
<1>10. CASE Lifted
  <2>1. /\ fails' = <<>> /\ guesses' = guesses /\ lost' = lost /\ lifted = 0 /\ lifted' = Window
        /\ Failing' = Failing /\ InFlight' = InFlight
    BY <1>10 DEF Lifted
  <2>2. fails' \in Seq(1..Window) /\ Len(fails') = 0 /\ DOMAIN fails' = {}
    BY <2>1
  <2>3. BudgetTypes'
    BY <1>1, <2>1, <2>2 DEF BudgetTypes, Rises
  <2>4. Len(fails') + Cardinality(InFlight') <= Most
    BY <1>1, <1>2, <2>1, <2>2, InFlightCounts
  <2>5. Len(guesses) <= Len(fails) + c + n /\ n = 0
    BY <1>1, <1>3, <1>14, <2>1, CoversCounts
  <2>6. Len(guesses) <= Most + lost
    BY <1>1, <1>2, <2>5, InFlightCounts DEF c
  <2>7. \A i \in 1..Len(guesses) : guesses'[i] <= lifted'
    BY <1>1, <2>1
  <2>8. Covers(fails', Cardinality(Failing') + (lost' - lost), guesses', Len(guesses))
    BY <1>2, <2>1 DEF Covers
  <2>9. lifted' # 0
    BY <1>1, <2>1
  <2>10. PICK m \in Nat, k \in Nat : m = Len(guesses) /\ k = lost
    BY <1>1, <1>2
  <2>11. m \in 0..Len(guesses') /\ k \in 0..lost' /\ k <= lost'
    BY <1>1, <1>2, <2>1, <2>10
  <2>12. Before(m, k)'
    BY <1>5, <2>6, <2>7, <2>8, <2>9, <2>10, <2>11
  <2> QED
    BY <1>4, <2>3, <2>4, <2>11, <2>12
<1>11. CASE Waited
  <2>1. /\ fails' = Aged(fails) /\ guesses' = Aged(guesses)
        /\ lifted' = IF lifted = 0 THEN 0 ELSE lifted - 1
        /\ lost' = IF guesses' = <<>> THEN 0 ELSE lost
        /\ Failing' = Failing /\ InFlight' = InFlight
    BY <1>11 DEF Waited
  <2>2. fails' \in Seq(1..Window) /\ Rises(fails') /\ \E a \in 0..Len(fails) : AgedBy(fails, a, fails')
    BY <1>1, <2>1, AgedIsABudget
  <2>3. guesses' \in Seq(1..Window) /\ Rises(guesses') /\ \E b \in 0..Len(guesses) : AgedBy(guesses, b, guesses')
    BY <1>1, <2>1, AgedIsABudget
  <2>4. PICK a \in 0..Len(fails) : AgedBy(fails, a, fails')
    BY <2>2
  <2>5. PICK b \in 0..Len(guesses) : AgedBy(guesses, b, guesses')
    BY <2>3
  <2> DEFINE m == IF n > b THEN n - b ELSE 0
  <2>6. BudgetTypes'
    BY <1>1, <2>1, <2>2, <2>3 DEF BudgetTypes, Rises
  <2>7. Len(fails') = Len(fails) - a /\ Len(guesses') = Len(guesses) - b /\ a \in Nat /\ b \in Nat
    BY <1>2, <2>4, <2>5 DEF AgedBy
  <2>8. Len(fails') + Cardinality(InFlight') <= Most
    BY <1>1, <1>2, <2>1, <2>7, InFlightCounts
  <2>9. Covers(fails', c, guesses', m)
    BY <1>1, <1>3, <1>14, <2>2, <2>3, <2>4, <2>5, CoversAge
  <2>10. m \in Nat /\ m <= Most + l /\ m <= Len(guesses')
    BY <1>2, <1>3, <2>7
  <2>11. ASSUME NEW i \in 1..m PROVE guesses'[i] <= lifted' /\ lifted > 1
    <3>1. i + b \in 1..n /\ i + b > b /\ i \in 1..(Len(guesses) - b) /\ i + b \in DOMAIN guesses
      BY <1>2, <2>7
    <3>2. guesses[i + b] > 1 /\ guesses'[i] = guesses[i + b] - 1 /\ guesses[i + b] <= lifted
      BY <1>3, <2>5, <3>1 DEF AgedBy
    <3>3. guesses[i + b] \in 1..Window
      BY <1>1, <3>1
    <3>4. lifted > 1 /\ lifted' = lifted - 1 /\ guesses[i + b] - 1 <= lifted - 1
      BY <1>1, <2>1, <3>2, <3>3
    <3> QED
      BY <3>2, <3>4
  <2>12. lifted' = 0 => m = 0
    <3>1. ASSUME m # 0, lifted' = 0 PROVE FALSE
      <4>1. 1 \in 1..m
        BY <2>10, <3>1
      <4>2. lifted > 1
        BY <2>11, <4>1
      <4> QED
        BY <1>1, <2>1, <3>1, <4>2
    <3> QED
      BY <3>1
  <2> HIDE DEF m
  <2>13. CASE lost' = lost
    <3>1. m \in Nat /\ m <= Most + l
      BY <1>2, <1>3, <2>10
    <3>2. \A i \in 1..m : guesses'[i] <= lifted'
      BY <2>11
    <3>3. Covers(fails', Cardinality(Failing') + (lost' - l), guesses', m)
      BY <2>1, <2>9, <2>13 DEF c
    <3>4. Before(m, l)'
      BY <1>2, <1>5, <2>12, <2>13, <3>1, <3>2, <3>3
    <3>5. m \in 0..Len(guesses') /\ l \in 0..lost'
      BY <1>2, <2>10, <2>13
    <3> QED
      BY <1>4, <2>6, <2>8, <3>4, <3>5
  <2>14. CASE lost' # lost
    <3>1. guesses' = <<>> /\ lost' = 0
      BY <2>1, <2>14
    <3>2. Len(guesses') = 0
      BY <3>1
    <3>3. Covers(fails', Cardinality(Failing') + (lost' - 0), guesses', 0)
      BY <3>2 DEF Covers
    <3>4. 0 \in 0..Len(guesses') /\ 0 \in 0..lost' /\ Before(0, 0)'
      BY <1>2, <1>5, <3>1, <3>2, <3>3
    <3> QED
      BY <1>4, <2>6, <2>8, <3>4
  <2> QED
    BY <2>13, <2>14
<1>12. ASSUME NEW r \in Attempts, Guessed(r) PROVE BudgetInv'
  <2>1. /\ r \in InFlight /\ r \notin Failing /\ Failing' = Failing \union {r} /\ InFlight' = InFlight
        /\ guesses' = Append(guesses, Window) /\ fails' = fails /\ lifted' = lifted
        /\ lost' = lost
    BY <1>12 DEF Guessed
  <2>2. Cardinality(Failing') = Cardinality(Failing) + 1
    BY <2>1, InFlightCounts, FS_AddElement
  <2>3. /\ guesses' \in Seq(1..Window) /\ Rises(guesses') /\ Len(guesses') = Len(guesses) + 1
        /\ \A i \in DOMAIN guesses : guesses'[i] = guesses[i]
    BY <1>1, <2>1, NewestCountsLongest
  <2>4. BudgetTypes'
    BY <1>1, <2>1, <2>3 DEF BudgetTypes, Rises
  <2>5. Len(fails') + Cardinality(InFlight') <= Most
    BY <1>1, <2>1
  <2>6. Covers(fails, c + 1, guesses', n)
    BY <1>1, <1>3, <1>14, <2>3, CoversGuess
  <2>7. \A i \in 1..n : guesses'[i] <= lifted'
    <3> SUFFICES ASSUME NEW i \in 1..n PROVE guesses'[i] <= lifted'
      OBVIOUS
    <3>1. i \in DOMAIN guesses
      BY <1>1, <1>2
    <3> QED
      BY <1>3, <2>1, <2>3, <3>1
  <2>8. Cardinality(Failing') + (lost' - l) = c + 1
    BY <1>1, <1>2, <2>1, <2>2, InFlightCounts DEF c
  <2>9. n \in 0..Len(guesses') /\ l \in 0..lost' /\ Before(n, l)'
    BY <1>1, <1>2, <1>3, <1>5, <2>1, <2>3, <2>6, <2>7, <2>8
  <2> QED
    BY <1>4, <2>4, <2>5, <2>9
<1>13. ASSUME NEW r \in Attempts, Recorded(r) PROVE BudgetInv'
  <2>1. /\ r \in Failing /\ r \in InFlight /\ Failing' = Failing \ {r} /\ InFlight' = InFlight \ {r}
        /\ fails' = Append(fails, Window) /\ guesses' = guesses /\ lifted' = lifted /\ lost' = lost
    BY <1>13 DEF Recorded, Failing, InFlight
  <2>2. Cardinality(Failing') = Cardinality(Failing) - 1 /\ Cardinality(InFlight') = Cardinality(InFlight) - 1
    BY <2>1, InFlightCounts, FS_RemoveElement
  <2>3. /\ fails' \in Seq(1..Window) /\ Rises(fails') /\ Len(fails') = Len(fails) + 1
        /\ \A i \in DOMAIN fails : fails'[i] = fails[i]
        /\ fails'[Len(fails) + 1] = Window
    BY <1>1, <2>1, NewestCountsLongest
  <2>4. BudgetTypes'
    BY <1>1, <2>1, <2>3 DEF BudgetTypes, Rises
  <2>5. Len(fails') + Cardinality(InFlight') <= Most
    BY <1>1, <1>2, <2>2, <2>3, InFlightCounts
  <2>6. c \in Nat \ {0} /\ Cardinality(Failing') + (lost' - l) = c - 1
    <3>1. Cardinality(Failing) \in Nat \ {0}
      BY <2>1, InFlightCounts, FS_EmptySet
    <3> QED
      BY <1>1, <1>2, <2>1, <2>2, <3>1, InFlightCountsNext DEF c
  <2>7. Covers(fails', c - 1, guesses, n)
    BY <1>1, <1>3, <2>3, <2>6, CoversRecord
  <2>8. n \in 0..Len(guesses') /\ l \in 0..lost' /\ Before(n, l)'
    BY <1>1, <1>2, <1>3, <1>5, <2>1, <2>6, <2>7
  <2> QED
    BY <1>4, <2>4, <2>5, <2>8
<1>15. ASSUME NEW r \in Attempts, Unwritten(r) PROVE BudgetInv'
  <2>1. /\ r \in Failing /\ r \in InFlight /\ Failing' = Failing \ {r} /\ InFlight' = InFlight \ {r}
        /\ fails' = fails /\ guesses' = guesses /\ lifted' = lifted /\ lost' = lost + 1
    BY <1>15 DEF Unwritten, Failing, InFlight
  <2>2. Cardinality(Failing') = Cardinality(Failing) - 1 /\ Cardinality(InFlight') = Cardinality(InFlight) - 1
    BY <2>1, InFlightCounts, FS_RemoveElement
  <2>3. BudgetTypes'
    BY <1>1, <2>1 DEF BudgetTypes, Rises
  <2>4. Len(fails') + Cardinality(InFlight') <= Most
    BY <1>1, <1>2, <2>1, <2>2, InFlightCounts
  <2>5. Cardinality(Failing') + (lost' - l) = c
    BY <1>1, <1>2, <2>1, <2>2, InFlightCounts DEF c
  <2>6. n \in 0..Len(guesses') /\ l \in 0..lost' /\ Before(n, l)'
    BY <1>1, <1>2, <1>3, <1>5, <2>1, <2>5
  <2> QED
    BY <1>4, <2>3, <2>4, <2>6
<1> QED
  BY <1>7, <1>8, <1>9, <1>10, <1>11, <1>12, <1>13, <1>15 DEF BudgetStep

BudgetKept == LoginTypes /\ BudgetInv

\* No failures and no guesses.
LEMMA BudgetStarts == LoginInit => BudgetKept
<1> SUFFICES ASSUME LoginInit PROVE BudgetKept
  OBVIOUS
<1>1. LoginTypes /\ BudgetTypes /\ Failing = {} /\ InFlight = {}
  BY LoginStarts
<1>2. fails = <<>> /\ guesses = <<>> /\ lifted = 0 /\ Len(fails) = 0 /\ Len(guesses) = 0
  BY DEF LoginInit
<1>5. lost = 0
  BY DEF LoginInit
<1>3. Most \in Nat /\ Cardinality(InFlight) = 0
  BY <1>1, InFlightCounts, LoginAssumption, FS_EmptySet DEF Most
<1>4. 0 \in 0..Len(guesses) /\ 0 \in 0..lost /\ Before(0, 0)
  BY <1>2, <1>3, <1>5 DEF Before, Covers
<1> QED
  BY <1>1, <1>2, <1>3, <1>4 DEF BudgetKept, BudgetInv

\* Every step of the login.
LEMMA BudgetKeeps == BudgetKept /\ [LoginNext]_loginVars => BudgetKept'
  BY LoginSteps, BudgetStaysBounded DEF BudgetKept, LoginStep

\* No more wrong passwords and codes are compared in a window, between one
\* completed sign-in and the next, than the limit and the requests there are
\* (attempts.go, CheckLoginThrottle), twice that when an owner lifts the lock,
\* and one for each failure that could not be written, for every limit, window
\* and number of requests.
THEOREM GuessesAreBounded == LoginSpec => []GuessesBounded
<1>1. BudgetKept => GuessesBounded
  BY BudgetIsABound DEF BudgetKept
<1> QED
  BY <1>1, BudgetStarts, BudgetKeeps, PTL DEF LoginSpec

-----------------------------------------------------------------------------
(* A developer's links and sessions.                                       *)

\* What a session holds, what a link is, and what a request is.
Datum == [dev : Grants \union {NoGrant}, exp : Nat, who : {"none", "user", "pending", "no row"}]
Link == [st : {"none", "approved", "denied", "waiting", "gone"}, auto : BOOLEAN, used : BOOLEAN,
         life : Nat, left : Nat, why : {"none", "bootstrap", "policy", "owner"}]
VisitShape == [at : {"idle", "running", "ending", "destroyed", "redeemed"}, tok : Nat, data : Datum,
               as : {"nobody", "user", "developer"}]

\* An approval has a reason, and the one that needs no owner says so.
LinkOK(l, c) ==
  /\ l.st = "approved" => l.why # "none"
  /\ l.used => l.why # "none"
  /\ l.why = "bootstrap" => l.auto
  /\ l.auto => l.st # "waiting"
  /\ c # "done" => l.st = "none" /\ ~l.used /\ l.why = "none"

LinksInv ==
  /\ policy \in {"ask", "deny", "open"} /\ cli \in [Grants -> {"no", "reading", "ask", "deny", "open", "done"}]
  /\ users \in BOOLEAN
  /\ grant \in [Grants -> Link]
  /\ \A g \in Grants : LinkOK(grant[g], cli[g])

\* A session of a link ends no later than the link's own row says.
Within(links, d) == d.dev \in Grants => links[d.dev].used /\ d.exp <= links[d.dev].left

SessionsInv ==
  /\ issued \in Nat
  /\ session \in [Tokens -> Datum] /\ visit \in [Visits -> VisitShape]
  /\ \A t \in Tokens : Within(grant, session[t])
  /\ \A r \in Visits : Within(grant, visit[r].data)

\* Whoever has spent a link and has no session yet is alone, and before it
\* the link has opened nothing.
OpenedInv ==
  /\ opened \in [Grants -> {0, 1}]
  /\ \A g \in Grants : ~grant[g].used => opened[g] = 0
  /\ \A r \in Visits : visit[r].at = "redeemed" => visit[r].data.dev \in Grants /\ opened[visit[r].data.dev] = 0
  /\ \A r, q \in Visits : visit[r].at = "redeemed" /\ visit[q].at = "redeemed" /\ visit[r].data.dev = visit[q].data.dev
                            => r = q

DevInv == LinksInv /\ SessionsInv /\ OpenedInv

\* One link moves.
LEMMA OneLinkMoves ==
  ASSUME LinksInv, NEW g \in Grants, NEW l \in Link, grant' = [grant EXCEPT ![g] = l],
         NEW c \in {"no", "reading", "ask", "deny", "open", "done"}, cli' = [cli EXCEPT ![g] = c], LinkOK(l, c),
         UNCHANGED <<users, policy>>
  PROVE  LinksInv'
<1>1. grant' \in [Grants -> Link] /\ cli' \in [Grants -> {"no", "reading", "ask", "deny", "open", "done"}]
  BY DEF LinksInv
<1>2. ASSUME NEW x \in Grants PROVE LinkOK(grant'[x], cli'[x])
  <2>1. CASE x = g
    BY <2>1 DEF LinksInv
  <2>2. CASE x # g
    <3>1. grant'[x] = grant[x] /\ cli'[x] = cli[x]
      BY <2>2 DEF LinksInv
    <3> QED
      BY <3>1 DEF LinksInv
  <2> QED
    BY <2>1, <2>2
<1> QED
  BY <1>1, <1>2 DEF LinksInv

\* Every step keeps the links' reasons.
LEMMA LinksKept == LinksInv /\ [DevNext]_devVars => LinksInv'
<1> SUFFICES ASSUME LinksInv, [DevNext]_devVars PROVE LinksInv'
  OBVIOUS
<1>0. \A g \in Grants : /\ grant[g] \in Link /\ LinkOK(grant[g], cli[g])
                        /\ cli[g] \in {"no", "reading", "ask", "deny", "open", "done"}
  BY DEF LinksInv
<1>1. ASSUME UNCHANGED <<grant, cli>>, policy' \in {"ask", "deny", "open"}, users' \in BOOLEAN PROVE LinksInv'
  BY <1>1 DEF LinksInv
<1>2. ASSUME NEW g \in Grants, ReadPolicy(g) \/ ReadUntil(g) PROVE LinksInv'
  <2>1. /\ cli[g] # "done" /\ UNCHANGED <<users, policy, grant>>
        /\ \E c \in {"reading", "ask", "deny", "open"} : cli' = [cli EXCEPT ![g] = c]
    BY <1>2 DEF ReadPolicy, ReadUntil, LinksInv
  <2>2. grant' = [grant EXCEPT ![g] = grant[g]]
    BY <2>1 DEF LinksInv
  <2>3. PICK c \in {"reading", "ask", "deny", "open"} : cli' = [cli EXCEPT ![g] = c]
    BY <2>1
  <2>4. LinkOK(grant[g], c) /\ grant[g] \in Link
    BY <1>0, <2>1 DEF LinkOK
  <2>5. UNCHANGED <<users, policy>>
    BY <2>1
  <2> QED
    BY <2>2, <2>3, <2>4, <2>5, OneLinkMoves
<1>3. ASSUME NEW g \in Grants, RequestDevAccess(g) PROVE LinksInv'
  <2> DEFINE l == [st |-> IF ApprovedAtOnce(cli[g]) THEN "approved"
                          ELSE IF cli[g] = "deny" THEN "denied" ELSE "waiting",
                   auto |-> ~users, used |-> FALSE, life |-> RequestTTL, left |-> 0,
                   why |-> IF ~users THEN "bootstrap" ELSE IF cli[g] = "open" THEN "policy" ELSE "none"]
  <2>1. l \in Link
    BY DevAccessAssumption DEF Link
  <2>2. LinkOK(l, "done")
    BY DEF LinkOK, ApprovedAtOnce
  <2>3. grant' = [grant EXCEPT ![g] = l] /\ cli' = [cli EXCEPT ![g] = "done"] /\ UNCHANGED <<users, policy>>
    BY <1>3 DEF RequestDevAccess
  <2> HIDE DEF l
  <2> QED
    BY <2>1, <2>2, <2>3, OneLinkMoves
<1>4. ASSUME NEW g \in Grants, NEW l \in Link, grant' = [grant EXCEPT ![g] = l], LinkOK(l, cli[g]),
             UNCHANGED <<cli, users, policy>>
      PROVE  LinksInv'
  <2>1. cli' = [cli EXCEPT ![g] = cli[g]] /\ cli[g] \in {"no", "reading", "ask", "deny", "open", "done"}
    BY <1>4 DEF LinksInv
  <2>2. UNCHANGED <<users, policy>> /\ grant' = [grant EXCEPT ![g] = l] /\ LinkOK(l, cli[g])
    BY <1>4
  <2> QED
    BY <2>1, <2>2, OneLinkMoves
<1>5. ASSUME NEW g \in Grants, PurgeOldDevAccess(g) PROVE LinksInv'
  <2> DEFINE l == [grant[g] EXCEPT !.st = "gone"]
  <2>1. l \in Link /\ l.st = "gone" /\ l.used = grant[g].used /\ l.why = grant[g].why /\ l.auto = grant[g].auto
    BY <1>0 DEF Link
  <2>2. grant' = [grant EXCEPT ![g] = l] /\ cli[g] = "done" /\ UNCHANGED <<cli, users, policy>>
    BY <1>5 DEF PurgeOldDevAccess
  <2> HIDE DEF l
  <2>3. LinkOK(l, cli[g])
    BY <1>0, <2>1, <2>2 DEF LinkOK
  <2> QED
    BY <1>4, <2>1, <2>2, <2>3
<1>6. ASSUME NEW r \in Visits, NEW g \in Grants, RedeemDevAccess(r, g) PROVE LinksInv'
  <2> DEFINE l == [grant[g] EXCEPT !.used = TRUE, !.left = SessionTTL]
  <2>1. l \in Link /\ l.st = grant[g].st /\ l.used = TRUE /\ l.why = grant[g].why /\ l.auto = grant[g].auto
    BY <1>0, DevAccessAssumption DEF Link
  <2>2. grant' = [grant EXCEPT ![g] = l] /\ grant[g].st = "approved" /\ UNCHANGED <<cli, users, policy>>
    BY <1>6 DEF RedeemDevAccess, Redeemable
  <2> HIDE DEF l
  <2>3. LinkOK(l, cli[g])
    BY <1>0, <2>1, <2>2 DEF LinkOK
  <2> QED
    BY <1>4, <2>1, <2>2, <2>3
<1>7. ASSUME NEW r \in Visits, NEW g \in Grants, NEW verdict \in {"approved", "denied"}, decideDevAccess(r, g, verdict)
      PROVE  LinksInv'
  <2> DEFINE l == [grant[g] EXCEPT !.st = verdict, !.why = IF verdict = "approved" THEN "owner" ELSE @]
  <2>1. /\ l \in Link /\ l.st = verdict /\ l.used = grant[g].used /\ l.auto = grant[g].auto
        /\ l.why = IF verdict = "approved" THEN "owner" ELSE grant[g].why
    BY <1>0 DEF Link
  <2>2. /\ grant' = [grant EXCEPT ![g] = l] /\ grant[g].st = "waiting" /\ ~grant[g].used
        /\ UNCHANGED <<cli, users, policy>>
    BY <1>7 DEF decideDevAccess, Undecided
  <2> HIDE DEF l
  <2>3. LinkOK(l, cli[g])
    BY <1>0, <2>1, <2>2 DEF LinkOK
  <2> QED
    BY <1>4, <2>1, <2>2, <2>3
<1>8. ASSUME NEW r \in Visits,
             \/ LogInDeveloper(r) \/ LogInFails(r) \/ VisitorLogsIn(r) \/ VisitorAwaitsFactor(r) \/ VisitorLogsOut(r)
             \/ Principal(r) \/ Commit(r) \/ \E t \in 0..MaxTokens : Load(r, t)
      PROVE  UNCHANGED <<users, policy, grant, cli>>
  BY <1>8 DEF LogInDeveloper, LogInFails, VisitorLogsIn, VisitorAwaitsFactor, VisitorLogsOut, Principal, Commit, Load
<1>9. ASSUME NEW mode \in {"ask", "deny", "open"}, SetPolicy(mode) PROVE LinksInv'
  BY <1>1, <1>9 DEF SetPolicy, LinksInv
<1>10. SetOpenUntil \/ NewAccount \/ UNCHANGED devVars => LinksInv'
  BY <1>1 DEF SetOpenUntil, NewAccount, devVars, LinksInv
<1>11. CASE DevTick
  <2>1. /\ grant' = [g \in Grants |-> [grant[g] EXCEPT !.life = Less(@), !.left = Less(@)]]
        /\ UNCHANGED <<users, policy, cli>>
    BY <1>11 DEF DevTick
  <2>2. ASSUME NEW g \in Grants PROVE grant'[g] \in Link /\ LinkOK(grant'[g], cli[g])
    <3>1. grant'[g] = [grant[g] EXCEPT !.life = Less(@), !.left = Less(@)]
      BY <2>1
    <3>2. Less(grant[g].life) \in Nat /\ Less(grant[g].left) \in Nat
      BY <1>0 DEF Link, Less
    <3>3. grant'[g] \in Link
      BY <1>0, <3>1, <3>2 DEF Link
    <3>4. /\ grant'[g].st = grant[g].st /\ grant'[g].used = grant[g].used /\ grant'[g].why = grant[g].why
          /\ grant'[g].auto = grant[g].auto
      BY <1>0, <3>1 DEF Link
    <3> QED
      BY <1>0, <3>3, <3>4 DEF LinkOK
  <2> QED
    BY <2>1, <2>2 DEF LinksInv
<1> QED
  BY <1>1, <1>2, <1>3, <1>5, <1>6, <1>7, <1>8, <1>9, <1>10, <1>11 DEF DevNext, LinksInv

\* Time aside, a spent link stays as it is for as long as it is there.
LEMMA SpentLinksStay ==
  ASSUME LinksInv, DevNext, ~DevTick, NEW g \in Grants, grant[g].used
  PROVE  grant'[g].used /\ grant'[g].left = grant[g].left
<1>0. grant[g] \in Link /\ LinkOK(grant[g], cli[g])
  BY DEF LinksInv
<1>1. ASSUME NEW x \in Grants, NEW l, grant' = [grant EXCEPT ![x] = l], l.used = grant[x].used, l.left = grant[x].left
      PROVE  grant'[g].used /\ grant'[g].left = grant[g].left
  <2>1. grant'[g] = IF g = x THEN l ELSE grant[g]
    BY <1>1 DEF LinksInv
  <2> QED
    BY <1>1, <2>1
<1>2. ASSUME NEW x \in Grants, NEW l, grant' = [grant EXCEPT ![x] = l], ~grant[x].used
      PROVE  grant'[g].used /\ grant'[g].left = grant[g].left
  <2>1. grant'[g] = grant[g]
    BY <1>2 DEF LinksInv
  <2> QED
    BY <2>1
<1>3. ASSUME NEW x \in Grants, RequestDevAccess(x) PROVE grant'[g].used /\ grant'[g].left = grant[g].left
  <2>1. ~grant[x].used
    BY <1>3 DEF RequestDevAccess, LinksInv, LinkOK
  <2>2. \E l : grant' = [grant EXCEPT ![x] = l]
    BY <1>3 DEF RequestDevAccess
  <2> QED
    BY <1>2, <2>1, <2>2
<1>4. ASSUME NEW x \in Grants, PurgeOldDevAccess(x) PROVE grant'[g].used /\ grant'[g].left = grant[g].left
  <2> DEFINE l == [grant[x] EXCEPT !.st = "gone"]
  <2>1. l.used = grant[x].used /\ l.left = grant[x].left
    BY DEF LinksInv, Link
  <2>2. grant' = [grant EXCEPT ![x] = l]
    BY <1>4 DEF PurgeOldDevAccess
  <2> HIDE DEF l
  <2> QED
    BY <1>1, <2>1, <2>2
<1>5. ASSUME NEW r \in Visits, NEW x \in Grants,
             RedeemDevAccess(r, x) \/ \E verdict \in {"approved", "denied"} : decideDevAccess(r, x, verdict)
      PROVE  grant'[g].used /\ grant'[g].left = grant[g].left
  <2>1. ~grant[x].used
    BY <1>5 DEF RedeemDevAccess, Redeemable, decideDevAccess, Undecided
  <2>2. \E l : grant' = [grant EXCEPT ![x] = l]
    BY <1>5 DEF RedeemDevAccess, decideDevAccess
  <2> QED
    BY <1>2, <2>1, <2>2
<1>6. ASSUME NEW r \in Visits,
             \/ LogInDeveloper(r) \/ LogInFails(r) \/ VisitorLogsIn(r) \/ VisitorAwaitsFactor(r) \/ VisitorLogsOut(r)
             \/ Principal(r) \/ Commit(r) \/ \E t \in 0..MaxTokens : Load(r, t)
      PROVE  grant' = grant
  BY <1>6 DEF LogInDeveloper, LogInFails, VisitorLogsIn, VisitorAwaitsFactor, VisitorLogsOut, Principal, Commit, Load
<1>7. ASSUME \/ \E mode \in {"ask", "deny", "open"} : SetPolicy(mode)
             \/ SetOpenUntil \/ NewAccount \/ \E x \in Grants : ReadPolicy(x) \/ ReadUntil(x)
      PROVE  grant' = grant
  BY <1>7 DEF SetPolicy, SetOpenUntil, NewAccount, ReadPolicy, ReadUntil
<1> QED
  BY <1>3, <1>4, <1>5, <1>6, <1>7 DEF DevNext

\* A session that was within its link still is.
LEMMA WithinStays ==
  ASSUME LinksInv, DevNext, ~DevTick, NEW d, Within(grant, d)
  PROVE  Within(grant', d)
<1>1. ASSUME d.dev \in Grants PROVE grant'[d.dev].used /\ d.exp <= grant'[d.dev].left
  <2>1. grant[d.dev].used /\ d.exp <= grant[d.dev].left
    BY <1>1 DEF Within
  <2>2. grant'[d.dev].used /\ grant'[d.dev].left = grant[d.dev].left
    BY <1>1, <2>1, SpentLinksStay
  <2> QED
    BY <2>1, <2>2
<1> QED
  BY <1>1 DEF Within

\* What a session's row is replaced by.
LEMMA PlainData ==
  /\ Empty \in Datum /\ NoSession \in Datum
  /\ \A links : Within(links, Empty) /\ Within(links, NoSession)
BY DevAccessAssumption DEF Empty, NoSession, Datum, Within

\* One request moves, and some rows go.
LEMMA OneVisitMoves ==
  ASSUME SessionsInv, LinksInv, DevNext, ~DevTick, issued' \in Nat,
         NEW r \in Visits, NEW v \in VisitShape, visit' = [visit EXCEPT ![r] = v], Within(grant', v.data),
         session' \in [Tokens -> Datum],
         \A t \in Tokens : session'[t] \in {session[t], NoSession, visit[r].data}
  PROVE  SessionsInv'
<1>1. visit' \in [Visits -> VisitShape]
  BY DEF SessionsInv
<1>2. ASSUME NEW x \in Visits PROVE Within(grant', visit'[x].data)
  <2>1. CASE x = r
    <3>1. visit'[x] = v
      BY <2>1 DEF SessionsInv
    <3> QED
      BY <3>1
  <2>2. CASE x # r
    <3>1. visit'[x] = visit[x] /\ Within(grant, visit[x].data)
      BY <2>2 DEF SessionsInv
    <3> QED
      BY <3>1, WithinStays
  <2> QED
    BY <2>1, <2>2
<1>3. ASSUME NEW t \in Tokens PROVE Within(grant', session'[t])
  <2>1. session'[t] \in {session[t], NoSession, visit[r].data} /\ Within(grant, session[t]) /\ Within(grant, visit[r].data)
    BY DEF SessionsInv
  <2>2. Within(grant, session'[t])
    BY <2>1, PlainData
  <2> QED
    BY <2>2, WithinStays
<1> QED
  BY <1>1, <1>2, <1>3 DEF SessionsInv

\* Every step keeps the sessions within their links.
LEMMA SessionsKept == LinksInv /\ SessionsInv /\ [DevNext]_devVars => SessionsInv'
<1> SUFFICES ASSUME LinksInv, SessionsInv, [DevNext]_devVars PROVE SessionsInv'
  OBVIOUS
<1>0. /\ issued \in Nat /\ session \in [Tokens -> Datum]
      /\ \A r \in Visits : visit[r] \in VisitShape /\ visit[r].data \in Datum /\ Within(grant, visit[r].data)
      /\ \A t \in Tokens : session[t] \in Datum /\ Within(grant, session[t])
      /\ \A g \in Grants : grant[g] \in Link
  BY DEF SessionsInv, LinksInv, VisitShape
<1>1. ASSUME UNCHANGED devVars PROVE SessionsInv'
  BY <1>1 DEF devVars, SessionsInv
<1>2. ASSUME DevNext, ~DevTick, UNCHANGED <<issued, session, visit>> PROVE SessionsInv'
  <2>1. \A r \in Visits : Within(grant', visit[r].data)
    BY <1>0, <1>2, WithinStays
  <2>2. \A t \in Tokens : Within(grant', session[t])
    BY <1>0, <1>2, WithinStays
  <2> QED
    BY <1>2, <2>1, <2>2 DEF SessionsInv
<1> DEFINE Moves(r, v) == visit' = [visit EXCEPT ![r] = v] /\ v \in VisitShape
<1>3. ASSUME NEW r \in Visits, NEW v, Moves(r, v), DevNext, ~DevTick, v.data \in {Empty, visit[r].data},
             UNCHANGED <<issued, session>>
      PROVE  SessionsInv'
  <2>1. Within(grant', v.data)
    BY <1>0, <1>3, PlainData, WithinStays
  <2>2. session' \in [Tokens -> Datum] /\ issued' \in Nat /\ \A t \in Tokens : session'[t] \in {session[t], NoSession, visit[r].data}
    BY <1>0, <1>3
  <2>3. v \in VisitShape /\ visit' = [visit EXCEPT ![r] = v]
    BY <1>3
  <2> QED
    BY <1>3, <2>1, <2>2, <2>3, OneVisitMoves
<1>4. ASSUME NEW t PROVE /\ Drop(t) \in [Tokens -> Datum]
                         /\ \A k \in Tokens : Drop(t)[k] \in {session[k], NoSession}
  BY <1>0, PlainData DEF Drop
<1>5. ASSUME NEW r \in Visits, NEW v, Moves(r, v), DevNext, ~DevTick, Within(grant', v.data),
             session' = Drop(visit[r].tok), issued' \in Nat
      PROVE  SessionsInv'
  <2>1. session' \in [Tokens -> Datum] /\ \A t \in Tokens : session'[t] \in {session[t], NoSession, visit[r].data}
    BY <1>4, <1>5
  <2>2. v \in VisitShape /\ visit' = [visit EXCEPT ![r] = v]
    BY <1>5
  <2> QED
    BY <1>5, <2>1, <2>2, OneVisitMoves
<1>6. ASSUME NEW r \in Visits, NEW data \in Datum, NEW at \in {"ending"}, Renewed(r, data, at), DevNext, ~DevTick,
             Within(grant', data)
      PROVE  SessionsInv'
  <2> DEFINE v == [visit[r] EXCEPT !.tok = issued + 1, !.data = data, !.at = at]
  <2>0. issued + 1 \in Nat
    BY <1>0
  <2>1. v \in VisitShape /\ v.data = data
    BY <1>0, <2>0 DEF VisitShape
  <2>2. visit' = [visit EXCEPT ![r] = v] /\ session' = Drop(visit[r].tok) /\ issued' = issued + 1
    BY <1>6 DEF Renewed
  <2> HIDE DEF v
  <2> QED
    BY <1>5, <1>6, <2>0, <2>1, <2>2
<1>7. ASSUME NEW r \in Visits, Destroyed(r), DevNext, ~DevTick, issued' = issued PROVE SessionsInv'
  <2> DEFINE v == [visit[r] EXCEPT !.at = "destroyed", !.data = Empty]
  <2>1. v \in VisitShape /\ v.data = Empty
    BY <1>0, PlainData DEF VisitShape
  <2>2. visit' = [visit EXCEPT ![r] = v] /\ session' = Drop(visit[r].tok) /\ issued' \in Nat
    BY <1>0, <1>7 DEF Destroyed
  <2>3. Within(grant', v.data)
    BY <2>1, PlainData
  <2> HIDE DEF v
  <2> QED
    BY <1>5, <1>7, <2>1, <2>2, <2>3
<1>8. Idle \in VisitShape /\ Idle.data = Empty
  BY PlainData DEF Idle, At, VisitShape
<1>9. ASSUME NEW r \in Visits, NEW t \in 0..MaxTokens, Load(r, t), DevNext, ~DevTick PROVE SessionsInv'
  <2>1. UNCHANGED <<issued, session>>
    BY <1>9 DEF Load
  <2>2. CASE t # 0 /\ session[t] # NoSession
    <3> DEFINE v == At("running", t, session[t])
    <3>1. t \in Tokens /\ t \in Nat
      BY <1>9, <2>2, DevAccessAssumption DEF Tokens
    <3>2. v \in VisitShape /\ v.data = session[t]
      BY <1>0, <3>1 DEF At, VisitShape
    <3>3. visit' = [visit EXCEPT ![r] = v]
      BY <1>9, <2>2 DEF Load
    <3> HIDE DEF v
    <3>4. Within(grant', v.data)
      BY <1>0, <1>9, <3>1, <3>2, WithinStays
    <3>5. session' \in [Tokens -> Datum] /\ issued' \in Nat /\ \A x \in Tokens : session'[x] \in {session[x], NoSession, visit[r].data}
      BY <1>0, <2>1
    <3> QED
      BY <1>9, <3>2, <3>3, <3>4, <3>5, OneVisitMoves
  <2>3. CASE ~(t # 0 /\ session[t] # NoSession)
    <3> DEFINE v == At("running", 0, Empty)
    <3>1. v \in VisitShape /\ v.data = Empty
      BY PlainData DEF At, VisitShape
    <3>2. visit' = [visit EXCEPT ![r] = v]
      BY <1>9, <2>3 DEF Load
    <3> HIDE DEF v
    <3> QED
      BY <1>3, <1>9, <2>1, <3>1, <3>2
  <2> QED
    BY <2>2, <2>3
<1>10. ASSUME NEW r \in Visits, Commit(r), DevNext, ~DevTick PROVE SessionsInv'
  <2>1. visit' = [visit EXCEPT ![r] = Idle] /\ issued' \in Nat
    BY <1>0, <1>10 DEF Commit
  <2>2. session' = session \/ session' = [session EXCEPT ![visit[r].tok] = visit[r].data]
    BY <1>10 DEF Commit
  <2>3. session' \in [Tokens -> Datum] /\ \A x \in Tokens : session'[x] \in {session[x], NoSession, visit[r].data}
    BY <1>0, <2>2
  <2>4. Within(grant', Idle.data)
    BY <1>8, PlainData
  <2> QED
    BY <1>8, <1>10, <2>1, <2>3, <2>4, OneVisitMoves
<1>11. ASSUME NEW r \in Visits, LogInFails(r), DevNext, ~DevTick PROVE SessionsInv'
  <2>1. visit' = [visit EXCEPT ![r] = Idle] /\ UNCHANGED <<issued, session>>
    BY <1>11 DEF LogInFails
  <2> QED
    BY <1>3, <1>8, <1>11, <2>1
<1>12. ASSUME NEW r \in Visits, VisitorLogsIn(r), DevNext, ~DevTick PROVE SessionsInv'
  <2> DEFINE data == [dev |-> NoGrant, exp |-> 0, who |-> "user"]
  <2>1. data \in Datum /\ Within(grant', data)
    BY DevAccessAssumption DEF Datum, Within
  <2>2. Renewed(r, data, "ending")
    BY <1>12 DEF VisitorLogsIn
  <2> HIDE DEF data
  <2> QED
    BY <1>6, <1>12, <2>1, <2>2
<1>13. ASSUME NEW r \in Visits, VisitorAwaitsFactor(r) \/ LogInDeveloper(r), DevNext, ~DevTick PROVE SessionsInv'
  <2>1. ASSUME NEW who \in {"pending", "none"}, Renewed(r, [visit[r].data EXCEPT !.who = who], "ending") PROVE SessionsInv'
    <3> DEFINE data == [visit[r].data EXCEPT !.who = who]
    <3>1. data \in Datum /\ data.dev = visit[r].data.dev /\ data.exp = visit[r].data.exp
      BY <1>0 DEF Datum
    <3>2. Renewed(r, data, "ending")
      BY <2>1
    <3> HIDE DEF data
    <3>3. Within(grant, data)
      BY <1>0, <3>1 DEF Within
    <3>4. Within(grant', data)
      BY <1>13, <3>3, WithinStays
    <3> QED
      BY <1>6, <1>13, <3>1, <3>2, <3>4
  <2> QED
    BY <1>13, <2>1 DEF VisitorAwaitsFactor, LogInDeveloper
<1>14. ASSUME NEW r \in Visits, VisitorLogsOut(r), DevNext, ~DevTick PROVE SessionsInv'
  BY <1>7, <1>14 DEF VisitorLogsOut
<1>15. ASSUME NEW r \in Visits, Principal(r), DevNext, ~DevTick PROVE SessionsInv'
  <2>1. issued' = issued
    BY <1>15 DEF Principal
  <2>2. CASE Destroyed(r)
    BY <1>7, <1>15, <2>1, <2>2
  <2>3. ASSUME NEW as \in {"developer", "user"}, visit' = [visit EXCEPT ![r].as = as], UNCHANGED session PROVE SessionsInv'
    <3> DEFINE v == [visit[r] EXCEPT !.as = as]
    <3>1. v \in VisitShape /\ v.data = visit[r].data
      BY <1>0 DEF VisitShape
    <3>2. visit' = [visit EXCEPT ![r] = v]
      BY <2>3
    <3> HIDE DEF v
    <3> QED
      BY <1>3, <1>15, <2>1, <2>3, <3>1, <3>2
  <2> QED
    BY <1>15, <2>2, <2>3 DEF Principal
<1>16. ASSUME NEW r \in Visits, NEW g \in Grants, NEW verdict, decideDevAccess(r, g, verdict), DevNext, ~DevTick PROVE SessionsInv'
  <2> DEFINE v == [visit[r] EXCEPT !.at = "ending"]
  <2>1. v \in VisitShape /\ v.data = visit[r].data
    BY <1>0 DEF VisitShape
  <2>2. visit' = [visit EXCEPT ![r] = v] /\ UNCHANGED <<issued, session>>
    BY <1>16 DEF decideDevAccess
  <2> HIDE DEF v
  <2> QED
    BY <1>3, <1>16, <2>1, <2>2
<1>17. ASSUME NEW r \in Visits, NEW g \in Grants, RedeemDevAccess(r, g), DevNext, ~DevTick PROVE SessionsInv'
  <2> DEFINE data == [dev |-> g, exp |-> SessionTTL, who |-> visit[r].data.who]
             v == [visit[r] EXCEPT !.at = "redeemed", !.data = data]
  <2>1. data \in Datum
    BY <1>0, DevAccessAssumption DEF Datum
  <2>2. data.dev = g /\ data.exp = SessionTTL
    OBVIOUS
  <2>3. visit' = [visit EXCEPT ![r] = v]
    BY <1>17 DEF RedeemDevAccess
  <2>4. grant'[g].used /\ grant'[g].left = SessionTTL
    BY <1>17 DEF RedeemDevAccess, LinksInv, Link
  <2>5. session' \in [Tokens -> Datum] /\ issued' \in Nat /\ \A x \in Tokens : session'[x] \in {session[x], NoSession, visit[r].data}
    BY <1>0, <1>17 DEF RedeemDevAccess
  <2> HIDE DEF data
  <2>6. v \in VisitShape /\ v.data = data
    BY <1>0, <2>1 DEF VisitShape
  <2>7. Within(grant', data)
    BY <2>2, <2>4, DevAccessAssumption DEF Within
  <2> HIDE DEF v
  <2> QED
    BY <1>17, <2>3, <2>5, <2>6, <2>7, OneVisitMoves
<1>18. CASE DevTick
  <2>1. /\ grant' = [g \in Grants |-> [grant[g] EXCEPT !.life = Less(@), !.left = Less(@)]]
        /\ session' = [t \in Tokens |-> Later(session[t])]
        /\ visit' = [r \in Visits |-> [visit[r] EXCEPT !.data = Later(@)]]
        /\ issued' = issued
    BY <1>18 DEF DevTick
  <2>2. ASSUME NEW d \in Datum, Within(grant, d) PROVE Later(d) \in Datum /\ Within(grant', Later(d))
    <3>0. Less(d.exp) \in Nat
      <4>1. d.exp \in Nat
        BY DEF Datum
      <4> QED
        BY <4>1 DEF Less
    <3>1. Later(d) \in Datum
      BY <3>0 DEF Later, Datum
    <3>2. Later(d).dev = d.dev /\ Later(d).exp = Less(d.exp)
      BY DEF Later, Datum
    <3>3. ASSUME d.dev \in Grants PROVE grant'[d.dev].used /\ Less(d.exp) <= grant'[d.dev].left
      <4>1. grant[d.dev].used /\ d.exp <= grant[d.dev].left /\ grant[d.dev].left \in Nat /\ d.exp \in Nat
        BY <1>0, <2>2, <3>3 DEF Within, Link, Datum
      <4>2. grant'[d.dev] = [grant[d.dev] EXCEPT !.life = Less(@), !.left = Less(@)]
        BY <2>1, <3>3
      <4>3. grant'[d.dev].used = grant[d.dev].used /\ grant'[d.dev].left = Less(grant[d.dev].left)
        BY <1>0, <3>3, <4>2 DEF Link
      <4>4. Less(d.exp) <= Less(grant[d.dev].left)
        BY <4>1 DEF Less
      <4> QED
        BY <4>1, <4>3, <4>4
    <3> QED
      BY <3>1, <3>2, <3>3 DEF Within
  <2>3. ASSUME NEW r \in Visits PROVE visit'[r] \in VisitShape /\ Within(grant', visit'[r].data)
    <3>1. visit'[r] = [visit[r] EXCEPT !.data = Later(@)]
      BY <2>1
    <3>2. Later(visit[r].data) \in Datum /\ Within(grant', Later(visit[r].data))
      BY <1>0, <2>2
    <3>3. visit'[r] \in VisitShape /\ visit'[r].data = Later(visit[r].data)
      BY <1>0, <3>1, <3>2 DEF VisitShape
    <3> QED
      BY <3>2, <3>3
  <2>4. ASSUME NEW t \in Tokens PROVE session'[t] \in Datum /\ Within(grant', session'[t])
    BY <1>0, <2>1, <2>2
  <2> QED
    BY <1>0, <2>1, <2>3, <2>4 DEF SessionsInv
<1>19. ASSUME DevNext, ~DevTick,
              \/ \E mode \in {"ask", "deny", "open"} : SetPolicy(mode)
              \/ SetOpenUntil \/ NewAccount
              \/ \E x \in Grants : ReadPolicy(x) \/ ReadUntil(x) \/ RequestDevAccess(x) \/ PurgeOldDevAccess(x)
       PROVE  SessionsInv'
  BY <1>2, <1>19 DEF SetPolicy, SetOpenUntil, NewAccount, ReadPolicy, ReadUntil, RequestDevAccess, PurgeOldDevAccess
<1> QED
  BY <1>1, <1>9, <1>10, <1>11, <1>12, <1>13, <1>14, <1>15, <1>16, <1>17, <1>18, <1>19 DEF DevNext

\* What a step does to the requests that have spent a link and have no
\* session yet, and to the count of the sessions that each link has opened.
Redeemed(r) == visit[r].at = "redeemed"

\* Nothing is opened, and nobody new stands before a session.
LEMMA NothingOpens ==
  ASSUME OpenedInv, opened' = opened, \A g \in Grants : grant[g].used => grant'[g].used,
         \A r \in Visits : visit'[r].at = "redeemed" => Redeemed(r) /\ visit'[r].data.dev = visit[r].data.dev
  PROVE  OpenedInv'
<1>1. \A g \in Grants : ~grant'[g].used => opened'[g] = 0
  BY DEF OpenedInv
<1>2. \A r \in Visits : visit'[r].at = "redeemed" => visit'[r].data.dev \in Grants /\ opened'[visit'[r].data.dev] = 0
  BY DEF OpenedInv, Redeemed
<1>3. \A r, q \in Visits : visit'[r].at = "redeemed" /\ visit'[q].at = "redeemed"
                           /\ visit'[r].data.dev = visit'[q].data.dev => r = q
  BY DEF OpenedInv, Redeemed
<1> QED
  BY <1>1, <1>2, <1>3 DEF OpenedInv

\* Every step keeps a link to one session.
LEMMA OpenedKept == LinksInv /\ SessionsInv /\ OpenedInv /\ [DevNext]_devVars => OpenedInv'
<1> SUFFICES ASSUME LinksInv, SessionsInv, OpenedInv, [DevNext]_devVars PROVE OpenedInv'
  OBVIOUS
<1>0. /\ visit \in [Visits -> VisitShape] /\ grant \in [Grants -> Link] /\ opened \in [Grants -> {0, 1}]
      /\ \A r \in Visits : visit[r] \in VisitShape /\ visit[r].data \in Datum /\ Within(grant, visit[r].data)
  BY DEF SessionsInv, LinksInv, OpenedInv, VisitShape
<1>1. CASE UNCHANGED devVars
  BY <1>1 DEF devVars, OpenedInv
<1>2. ASSUME DevNext, ~DevTick PROVE \A g \in Grants : grant[g].used => grant'[g].used
  BY <1>2, SpentLinksStay
<1>3. ASSUME DevNext, ~DevTick, UNCHANGED <<visit, opened>> PROVE OpenedInv'
  BY <1>2, <1>3, NothingOpens DEF Redeemed
<1>4. ASSUME DevNext, ~DevTick, opened' = opened, NEW r \in Visits, NEW v, visit' = [visit EXCEPT ![r] = v], v.at # "redeemed"
      PROVE  OpenedInv'
  <2>1. \A x \in Visits : visit'[x] = IF x = r THEN v ELSE visit[x]
    BY <1>0, <1>4
  <2>2. \A x \in Visits : visit'[x].at = "redeemed" => Redeemed(x) /\ visit'[x].data.dev = visit[x].data.dev
    BY <1>4, <2>1 DEF Redeemed
  <2> QED
    BY <1>2, <1>4, <2>2, NothingOpens
<1>5. Idle.at = "idle"
  BY DEF Idle, At
<1>6. ASSUME NEW r \in Visits, NEW t \in 0..MaxTokens, Load(r, t), DevNext, ~DevTick PROVE OpenedInv'
  <2> DEFINE v == IF t # 0 /\ session[t] # NoSession THEN At("running", t, session[t]) ELSE At("running", 0, Empty)
  <2>1. v.at = "running"
    BY DEF At
  <2>2. visit' = [visit EXCEPT ![r] = v] /\ opened' = opened
    BY <1>6 DEF Load
  <2> HIDE DEF v
  <2> QED
    BY <1>4, <1>6, <2>1, <2>2
<1>7. ASSUME NEW r \in Visits, Commit(r) \/ LogInFails(r), DevNext, ~DevTick PROVE OpenedInv'
  <2>1. visit' = [visit EXCEPT ![r] = Idle] /\ opened' = opened
    BY <1>7 DEF Commit, LogInFails
  <2> QED
    BY <1>4, <1>5, <1>7, <2>1
<1>8. ASSUME NEW r \in Visits, NEW data, NEW at, Renewed(r, data, at) PROVE \E v : visit' = [visit EXCEPT ![r] = v] /\ v.at = at /\ v.data = data
  <2> DEFINE v == [visit[r] EXCEPT !.tok = issued + 1, !.data = data, !.at = at]
  <2>1. v.at = at /\ v.data = data
    BY <1>0 DEF VisitShape
  <2>2. visit' = [visit EXCEPT ![r] = v]
    BY <1>8 DEF Renewed
  <2> HIDE DEF v
  <2> QED
    BY <2>1, <2>2
<1>9. ASSUME NEW r \in Visits, VisitorLogsIn(r) \/ VisitorAwaitsFactor(r), DevNext, ~DevTick PROVE OpenedInv'
  <2>1. opened' = opened /\ \E data : Renewed(r, data, "ending")
    BY <1>9 DEF VisitorLogsIn, VisitorAwaitsFactor
  <2>2. PICK v : visit' = [visit EXCEPT ![r] = v] /\ v.at = "ending"
    BY <1>8, <2>1
  <2> QED
    BY <1>4, <1>9, <2>1, <2>2
<1>10. ASSUME NEW r \in Visits, Destroyed(r), opened' = opened, DevNext, ~DevTick PROVE OpenedInv'
  <2> DEFINE v == [visit[r] EXCEPT !.at = "destroyed", !.data = Empty]
  <2>1. v.at = "destroyed"
    BY <1>0 DEF VisitShape
  <2>2. visit' = [visit EXCEPT ![r] = v]
    BY <1>10 DEF Destroyed
  <2> HIDE DEF v
  <2> QED
    BY <1>4, <1>10, <2>1, <2>2
<1>11. ASSUME NEW r \in Visits, VisitorLogsOut(r), DevNext, ~DevTick PROVE OpenedInv'
  BY <1>10, <1>11 DEF VisitorLogsOut
<1>12. ASSUME NEW r \in Visits, Principal(r), DevNext, ~DevTick PROVE OpenedInv'
  <2>1. opened' = opened /\ visit[r].at = "running"
    BY <1>12 DEF Principal
  <2>2. CASE Destroyed(r)
    BY <1>10, <1>12, <2>1, <2>2
  <2>3. ASSUME NEW as \in {"developer", "user"}, visit' = [visit EXCEPT ![r].as = as] PROVE OpenedInv'
    <3> DEFINE v == [visit[r] EXCEPT !.as = as]
    <3>1. v.at = "running"
      BY <1>0, <2>1 DEF VisitShape
    <3>2. visit' = [visit EXCEPT ![r] = v]
      BY <2>3
    <3> HIDE DEF v
    <3> QED
      BY <1>4, <1>12, <2>1, <3>1, <3>2
  <2> QED
    BY <1>12, <2>2, <2>3 DEF Principal
<1>13. ASSUME NEW r \in Visits, NEW g \in Grants, NEW verdict, decideDevAccess(r, g, verdict), DevNext, ~DevTick PROVE OpenedInv'
  <2> DEFINE v == [visit[r] EXCEPT !.at = "ending"]
  <2>1. v.at = "ending"
    BY <1>0 DEF VisitShape
  <2>2. visit' = [visit EXCEPT ![r] = v] /\ opened' = opened
    BY <1>13 DEF decideDevAccess
  <2> HIDE DEF v
  <2> QED
    BY <1>4, <1>13, <2>1, <2>2
<1>14. ASSUME NEW r \in Visits, NEW g \in Grants, RedeemDevAccess(r, g), DevNext, ~DevTick PROVE OpenedInv'
  <2> DEFINE data == [dev |-> g, exp |-> SessionTTL, who |-> visit[r].data.who]
             v == [visit[r] EXCEPT !.at = "redeemed", !.data = data]
  <2>1. data.dev = g
    OBVIOUS
  <2>2. visit' = [visit EXCEPT ![r] = v] /\ opened' = opened /\ ~grant[g].used
    BY <1>14 DEF RedeemDevAccess, Redeemable
  <2>3. \A x \in Grants \ {g} : grant'[x] = grant[x]
    BY <1>0, <1>14 DEF RedeemDevAccess
  <2> HIDE DEF data
  <2>4. v.at = "redeemed" /\ v.data.dev = g
    BY <1>0, <2>1 DEF VisitShape
  <2> HIDE DEF v
  <2>5. \A x \in Visits : visit'[x] = IF x = r THEN v ELSE visit[x]
    BY <1>0, <2>2
  <2>6. opened[g] = 0
    BY <2>2 DEF OpenedInv
  <2>7. \A x \in Visits : visit[x].data.dev # g
    BY <1>0, <2>2 DEF Within
  <2>8. \A x \in Grants : ~grant'[x].used => opened'[x] = 0
    BY <2>2, <2>3, <2>6 DEF OpenedInv
  <2>9. \A x \in Visits : visit'[x].at = "redeemed" => visit'[x].data.dev \in Grants /\ opened'[visit'[x].data.dev] = 0
    BY <2>2, <2>4, <2>5, <2>6 DEF OpenedInv
  <2>10. \A x, q \in Visits : visit'[x].at = "redeemed" /\ visit'[q].at = "redeemed"
                              /\ visit'[x].data.dev = visit'[q].data.dev => x = q
    BY <2>4, <2>5, <2>7 DEF OpenedInv
  <2> QED
    BY <1>0, <2>2, <2>8, <2>9, <2>10 DEF OpenedInv
<1>15. ASSUME NEW r \in Visits, LogInDeveloper(r), DevNext, ~DevTick PROVE OpenedInv'
  <2> DEFINE g == visit[r].data.dev
  <2>1. /\ visit[r].at = "redeemed" /\ grant' = grant /\ opened' = [opened EXCEPT ![g] = @ + 1]
        /\ Renewed(r, [visit[r].data EXCEPT !.who = "none"], "ending")
    BY <1>15 DEF LogInDeveloper
  <2>2. g \in Grants /\ opened[g] = 0 /\ grant[g].used
    BY <1>0, <2>1 DEF OpenedInv, Within
  <2>3. PICK v : visit' = [visit EXCEPT ![r] = v] /\ v.at = "ending"
    BY <1>8, <2>1
  <2>4. \A x \in Visits : visit'[x] = IF x = r THEN v ELSE visit[x]
    BY <1>0, <2>3
  <2>5. opened[g] + 1 = 1
    BY <2>2
  <2>6. \A x \in Grants : opened'[x] = IF x = g THEN 1 ELSE opened[x]
    BY <1>0, <2>1, <2>5
  <2>7. opened' \in [Grants -> {0, 1}]
    BY <1>0, <2>1, <2>5
  <2>8. \A x \in Visits : visit'[x].at = "redeemed" => visit[x].at = "redeemed" /\ visit'[x] = visit[x] /\ x # r
    BY <2>3, <2>4
  <2>9. \A x \in Visits : visit'[x].at = "redeemed" => visit[x].data.dev # g
    BY <2>1, <2>8 DEF OpenedInv
  <2> HIDE DEF g
  <2>10. \A x \in Visits : visit'[x].at = "redeemed" => visit'[x].data.dev \in Grants /\ opened'[visit'[x].data.dev] = 0
    BY <2>6, <2>8, <2>9 DEF OpenedInv
  <2>11. \A x, q \in Visits : visit'[x].at = "redeemed" /\ visit'[q].at = "redeemed"
                              /\ visit'[x].data.dev = visit'[q].data.dev => x = q
    BY <2>8 DEF OpenedInv
  <2>12. \A x \in Grants : ~grant'[x].used => opened'[x] = 0
    BY <2>1, <2>2, <2>6 DEF OpenedInv
  <2> QED
    BY <2>7, <2>10, <2>11, <2>12 DEF OpenedInv
<1>16. CASE DevTick
  <2>1. /\ grant' = [g \in Grants |-> [grant[g] EXCEPT !.life = Less(@), !.left = Less(@)]]
        /\ visit' = [r \in Visits |-> [visit[r] EXCEPT !.data = Later(@)]] /\ opened' = opened
    BY <1>16 DEF DevTick
  <2>2. ASSUME NEW g \in Grants PROVE grant'[g].used = grant[g].used
    <3>1. grant'[g] = [grant[g] EXCEPT !.life = Less(@), !.left = Less(@)]
      BY <2>1
    <3> QED
      BY <1>0, <3>1 DEF Link
  <2>3. ASSUME NEW r \in Visits PROVE visit'[r].at = visit[r].at /\ visit'[r].data.dev = visit[r].data.dev
    <3>1. visit'[r] = [visit[r] EXCEPT !.data = Later(@)]
      BY <2>1
    <3>2. visit'[r].at = visit[r].at /\ visit'[r].data = Later(visit[r].data)
      BY <1>0, <3>1 DEF VisitShape
    <3>3. Later(visit[r].data).dev = visit[r].data.dev
      BY <1>0 DEF Later, Datum
    <3> QED
      BY <3>2, <3>3
  <2> QED
    BY <2>1, <2>2, <2>3, NothingOpens DEF Redeemed
<1>17. ASSUME DevNext, ~DevTick,
              \/ \E mode \in {"ask", "deny", "open"} : SetPolicy(mode)
              \/ SetOpenUntil \/ NewAccount
              \/ \E x \in Grants : ReadPolicy(x) \/ ReadUntil(x) \/ RequestDevAccess(x) \/ PurgeOldDevAccess(x)
       PROVE  OpenedInv'
  BY <1>3, <1>17 DEF SetPolicy, SetOpenUntil, NewAccount, ReadPolicy, ReadUntil, RequestDevAccess, PurgeOldDevAccess
<1> QED
  BY <1>1, <1>6, <1>7, <1>9, <1>11, <1>12, <1>13, <1>14, <1>15, <1>16, <1>17 DEF DevNext

\* Whoever comes to be taken for the developer has a link somebody said yes
\* to, that has not run out and that has opened one session.
LEMMA TakenForTheDeveloper ==
  DevInv /\ [DevNext]_devVars
  => \A r \in Visits :
       visit[r].as # "developer" /\ visit'[r].as = "developer" =>
         LET g == grant[visit[r].data.dev] IN
           /\ g.why # "none" /\ g.left > 0
           /\ g.why = "bootstrap" => ~users
           /\ opened[visit[r].data.dev] <= 1
<1> SUFFICES ASSUME DevInv, [DevNext]_devVars, NEW r \in Visits, visit[r].as # "developer", visit'[r].as = "developer"
             PROVE  /\ grant[visit[r].data.dev].why # "none" /\ grant[visit[r].data.dev].left > 0
                    /\ grant[visit[r].data.dev].why = "bootstrap" => ~users
                    /\ opened[visit[r].data.dev] <= 1
  OBVIOUS
<1> DEFINE d == visit[r].data
<1>0. /\ visit \in [Visits -> VisitShape] /\ d \in Datum /\ Within(grant, d)
      /\ grant \in [Grants -> Link] /\ opened \in [Grants -> {0, 1}]
  BY DEF DevInv, SessionsInv, LinksInv, OpenedInv, VisitShape
<1>1. ASSUME NEW x \in Visits, NEW v, visit' = [visit EXCEPT ![x] = v], v.as \in {visit[x].as, "nobody", "user"} PROVE FALSE
  <2>1. visit'[r] = IF x = r THEN v ELSE visit[r]
    BY <1>0, <1>1
  <2> QED
    BY <1>1, <2>1
<1>2. visit' # visit
  OBVIOUS
<1>3. ASSUME NEW x \in Visits, LogInDeveloper(x) \/ VisitorLogsIn(x) \/ VisitorAwaitsFactor(x) PROVE FALSE
  <2>1. \E data, at : Renewed(x, data, at)
    BY <1>3 DEF LogInDeveloper, VisitorLogsIn, VisitorAwaitsFactor
  <2>2. PICK data, at : Renewed(x, data, at)
    BY <2>1
  <2> DEFINE v == [visit[x] EXCEPT !.tok = issued + 1, !.data = data, !.at = at]
  <2>3. v.as = visit[x].as
    BY <1>0 DEF VisitShape
  <2>4. visit' = [visit EXCEPT ![x] = v]
    BY <2>2 DEF Renewed
  <2> HIDE DEF v
  <2> QED
    BY <1>1, <2>3, <2>4
<1>4. ASSUME NEW x \in Visits, Destroyed(x) PROVE FALSE
  <2> DEFINE v == [visit[x] EXCEPT !.at = "destroyed", !.data = Empty]
  <2>1. v.as = visit[x].as
    BY <1>0 DEF VisitShape
  <2>2. visit' = [visit EXCEPT ![x] = v]
    BY <1>4 DEF Destroyed
  <2> HIDE DEF v
  <2> QED
    BY <1>1, <2>1, <2>2
<1>5. ASSUME NEW x \in Visits, Commit(x) \/ LogInFails(x) \/ \E t \in 0..MaxTokens : Load(x, t) PROVE FALSE
  <2>1. \E at, t, data : visit' = [visit EXCEPT ![x] = At(at, t, data)]
    BY <1>5 DEF Commit, LogInFails, Load, Idle
  <2>2. PICK at, t, data : visit' = [visit EXCEPT ![x] = At(at, t, data)]
    BY <2>1
  <2>3. At(at, t, data).as = "nobody"
    BY DEF At
  <2> QED
    BY <1>1, <2>2, <2>3
<1>6. ASSUME NEW x \in Visits, NEW g \in Grants,
             RedeemDevAccess(x, g) \/ \E verdict \in {"approved", "denied"} : decideDevAccess(x, g, verdict)
      PROVE  FALSE
  <2>1. CASE RedeemDevAccess(x, g)
    <3> DEFINE data == [dev |-> g, exp |-> SessionTTL, who |-> visit[x].data.who]
               v == [visit[x] EXCEPT !.at = "redeemed", !.data = data]
    <3> HIDE DEF data
    <3>1. v.as = visit[x].as
      BY <1>0 DEF VisitShape
    <3>2. visit' = [visit EXCEPT ![x] = v]
      BY <2>1 DEF RedeemDevAccess, data
    <3> HIDE DEF v
    <3> QED
      BY <1>1, <3>1, <3>2
  <2>2. CASE ~RedeemDevAccess(x, g)
    <3> DEFINE v == [visit[x] EXCEPT !.at = "ending"]
    <3>1. v.as = visit[x].as
      BY <1>0 DEF VisitShape
    <3>2. visit' = [visit EXCEPT ![x] = v]
      BY <1>6, <2>2 DEF decideDevAccess
    <3> HIDE DEF v
    <3> QED
      BY <1>1, <3>1, <3>2
  <2> QED
    BY <2>1, <2>2
<1>7. ~DevTick
  <2> SUFFICES ASSUME DevTick PROVE FALSE
    OBVIOUS
  <2>1. visit'[r] = [visit[r] EXCEPT !.data = Later(@)]
    BY DEF DevTick
  <2> QED
    BY <1>0, <2>1 DEF VisitShape
<1>8. PICK x \in Visits : Principal(x) \/ VisitorLogsOut(x)
  <2>1. ~(\/ \E mode \in {"ask", "deny", "open"} : SetPolicy(mode)
          \/ SetOpenUntil \/ NewAccount
          \/ \E x \in Grants : ReadPolicy(x) \/ ReadUntil(x) \/ RequestDevAccess(x) \/ PurgeOldDevAccess(x))
    BY <1>2 DEF SetPolicy, SetOpenUntil, NewAccount, ReadPolicy, ReadUntil, RequestDevAccess, PurgeOldDevAccess
  <2>2. DevNext
    BY <1>2 DEF devVars
  <2> QED
    BY <1>3, <1>5, <1>6, <1>7, <2>1, <2>2 DEF DevNext
<1>9. x = r /\ d.dev # NoGrant /\ Stands(d)
  <2>1. CASE VisitorLogsOut(x)
    BY <1>4, <2>1 DEF VisitorLogsOut
  <2>2. CASE Principal(x)
    <3>1. ASSUME visit' = [visit EXCEPT ![x].as = "user"] PROVE FALSE
      <4> DEFINE v == [visit[x] EXCEPT !.as = "user"]
      <4>1. v.as = "user"
        BY <1>0 DEF VisitShape
      <4>2. visit' = [visit EXCEPT ![x] = v]
        BY <3>1
      <4> HIDE DEF v
      <4> QED
        BY <1>1, <4>1, <4>2
    <3>2. /\ visit' = [visit EXCEPT ![x].as = "developer"]
          /\ visit[x].data.dev # NoGrant /\ Stands(visit[x].data)
      BY <1>4, <2>2, <3>1 DEF Principal
    <3>3. ASSUME x # r PROVE FALSE
      <4>1. visit'[r] = visit[r]
        BY <1>0, <3>2, <3>3
      <4> QED
        BY <4>1
    <3> QED
      BY <3>2, <3>3
  <2> QED
    BY <1>8, <2>1, <2>2
<1>10. d.dev \in Grants /\ d.exp \in Nat
  BY <1>0, <1>9 DEF Datum
<1> DEFINE l == grant[d.dev]
<1>11. l \in Link /\ l.used /\ d.exp <= l.left /\ l.left \in Nat /\ LinkOK(l, cli[d.dev])
  BY <1>0, <1>10 DEF Within, DevInv, LinksInv, Link
<1>12. d.exp > 0 /\ (~l.auto \/ ~users)
  BY <1>9 DEF Stands, DevSessionLive, bootstrapGrantAlive
<1>13. l.left > 0
  BY <1>10, <1>11, <1>12
<1>14. l.why # "none" /\ (l.why = "bootstrap" => ~users)
  BY <1>11, <1>12 DEF LinkOK
<1>15. opened[d.dev] \in {0, 1}
  BY <1>0, <1>10
<1>16. opened[d.dev] <= 1
  BY <1>15
<1> QED
  BY <1>13, <1>14, <1>16

\* Nobody is taken for the developer but on a link that was granted for a
\* reason that still holds, within its time and once (devaccess.go, H11;
\* web/setup.go, devAccessHandler), for every number of links, requests and
\* sessions.
THEOREM DevelopersActWithin == DevSpec => DeveloperActsWithin
<1>1. DevInit => DevInv
  <2> SUFFICES ASSUME DevInit PROVE DevInv
    OBVIOUS
  <2>1. LinksInv
    <3> DEFINE l == [st |-> "none", auto |-> FALSE, used |-> FALSE, life |-> 0, left |-> 0, why |-> "none"]
    <3>1. l \in Link /\ LinkOK(l, "no")
      BY DEF Link, LinkOK
    <3>2. grant = [g \in Grants |-> l] /\ cli = [g \in Grants |-> "no"] /\ policy = "ask" /\ users = FALSE
      BY DEF DevInit
    <3> HIDE DEF l
    <3> QED
      BY <3>1, <3>2 DEF LinksInv
  <2>2. Idle \in VisitShape /\ Idle.data = Empty /\ Idle.at = "idle"
    BY PlainData DEF Idle, At, VisitShape
  <2>3. visit = [r \in Visits |-> Idle] /\ session = [t \in Tokens |-> NoSession] /\ issued = 0
    BY DEF DevInit
  <2>4. SessionsInv
    BY <2>2, <2>3, PlainData DEF SessionsInv
  <2>5. OpenedInv
    BY <2>2, <2>3 DEF DevInit, OpenedInv
  <2> QED
    BY <2>1, <2>4, <2>5 DEF DevInv
<1>2. DevInv /\ [DevNext]_devVars => DevInv'
  BY LinksKept, SessionsKept, OpenedKept DEF DevInv
<1>3. DevInv /\ [DevNext]_devVars
      => [\A r \in Visits :
            visit[r].as # "developer" /\ visit'[r].as = "developer" =>
              LET g == grant[visit[r].data.dev] IN
                /\ g.why # "none" /\ g.left > 0
                /\ g.why = "bootstrap" => ~users
                /\ opened[visit[r].data.dev] <= 1]_devVars
  BY TakenForTheDeveloper
<1> QED
  BY <1>1, <1>2, <1>3, PTL DEF DevSpec, DeveloperActsWithin

-----------------------------------------------------------------------------
(* The developer password and its budget.                                  *)

\* Whoever is being compared found room in the budget, and nobody else has
\* touched it since.
GateInv ==
  /\ failures \in Seq(1..GateWindow) /\ Rises(failures) /\ wrong = failures
  /\ slot = {} \/ \E r \in Requests : slot = {r}
  /\ Len(failures) <= MaxWrong
  /\ slot # {} => Len(failures) < MaxWrong

\* The steps by what they do to the gate.
GateKept == UNCHANGED <<failures, wrong, slot>>
GateFails == \E r \in slot : failures' = Append(failures, GateWindow) /\ wrong' = Append(wrong, GateWindow)
                             /\ slot' = slot \ {r}
GateEmptied == failures' = <<>> /\ wrong' = <<>> /\ slot' \subseteq slot
GateAges == failures' = Age(failures) /\ wrong' = Age(wrong) /\ UNCHANGED slot
GateTaken == \E r \in Requests : slot = {} /\ ~throttled /\ slot' = {r} /\ UNCHANGED <<failures, wrong>>

GateStep == GateKept \/ GateFails \/ GateEmptied \/ GateAges \/ GateTaken

\* Age of the gate (devgate.go) removes the failures that have stopped
\* counting, and those alone.
LEMMA AgeIsABudget ==
  ASSUME NEW W \in Nat, NEW s \in Seq(1..W), Rises(s)
  PROVE  Age(s) \in Seq(1..W) /\ Rises(Age(s)) /\ Len(Age(s)) <= Len(s)
<1> DEFINE gone == CHOOSE n \in 0..Len(s) : \A i \in DOMAIN s : s[i] > 1 <=> i > n
<1>1. s \in Seq(Nat)
  OBVIOUS
<1>2. gone \in 0..Len(s) /\ \A i \in DOMAIN s : s[i] > 1 <=> i > gone
  BY <1>1, OldOnesComeFirst
<1>3. Age(s) = [i \in 1..(Len(s) - gone) |-> s[i + gone] - 1]
  BY DEF Age
<1> HIDE DEF gone
<1>4. Age(s) \in Seq(1..W) /\ Rises(Age(s)) /\ AgedBy(s, gone, Age(s))
  BY <1>2, <1>3, CutIsABudget
<1>5. Len(Age(s)) = Len(s) - gone /\ Len(s) \in Nat
  BY <1>4 DEF AgedBy
<1> QED
  BY <1>2, <1>4, <1>5

\* Every step of the gate keeps its budget.
LEMMA GateStaysBounded == GateInv /\ GateStep => GateInv'
<1> SUFFICES ASSUME GateInv, GateStep PROVE GateInv'
  OBVIOUS
<1> USE GateAssumption
<1>0. Len(failures) \in Nat /\ failures \in Seq(1..GateWindow) /\ Rises(failures) /\ wrong = failures
  BY DEF GateInv
<1>1. CASE GateKept
  BY <1>1 DEF GateInv, GateKept, Rises
<1>2. CASE GateFails
  <2>1. PICK r \in slot : failures' = Append(failures, GateWindow) /\ wrong' = Append(wrong, GateWindow)
                          /\ slot' = slot \ {r}
    BY <1>2 DEF GateFails
  <2>2. slot' = {} /\ Len(failures) < MaxWrong
    BY <2>1 DEF GateInv
  <2>3. failures' \in Seq(1..GateWindow) /\ Rises(failures') /\ Len(failures') = Len(failures) + 1
    BY <1>0, <2>1, NewestCountsLongest
  <2>4. Len(failures') <= MaxWrong
    BY <1>0, <2>2, <2>3
  <2> QED
    BY <1>0, <2>1, <2>2, <2>3, <2>4 DEF GateInv, Rises
<1>3. CASE GateEmptied
  <2>1. failures' \in Seq(1..GateWindow) /\ Len(failures') = 0 /\ DOMAIN failures' = {} /\ wrong' = failures'
    BY <1>3 DEF GateEmptied
  <2>2. slot' = {} \/ \E r \in Requests : slot' = {r}
    BY <1>3 DEF GateEmptied, GateInv
  <2> QED
    BY <2>1, <2>2 DEF GateInv, Rises
<1>4. CASE GateAges
  <2>1. failures' \in Seq(1..GateWindow) /\ Rises(failures') /\ Len(failures') <= Len(failures)
    BY <1>0, <1>4, AgeIsABudget DEF GateAges
  <2>2. Len(failures') \in Nat /\ wrong' = failures' /\ slot' = slot
    BY <1>0, <1>4, <2>1 DEF GateAges
  <2>3. Len(failures') <= MaxWrong /\ (slot' # {} => Len(failures') < MaxWrong)
    BY <1>0, <2>1, <2>2 DEF GateInv
  <2> QED
    BY <2>1, <2>2, <2>3 DEF GateInv, Rises
<1>5. CASE GateTaken
  <2>1. Len(failures) < MaxWrong
    BY <1>0, <1>5 DEF GateTaken, throttled
  <2> QED
    BY <1>0, <1>5, <2>1 DEF GateInv, GateTaken, Rises
<1> QED
  BY <1>1, <1>2, <1>3, <1>4, <1>5 DEF GateStep

\* Every step of the settings is one of the gate.
LEMMA SettingsStepsTheGate == [SettingsNext]_settingsVars => GateStep
<1> SUFFICES ASSUME [SettingsNext]_settingsVars PROVE GateStep
  OBVIOUS
<1> USE DEF gate
<1>1. ASSUME NEW r \in Requests, NEW p \in Operators, settingsHandler(r, p) \/ saveWizard(r, p) \/ saveRetention(r, p)
      PROVE  GateKept
  <2>1. settingsHandler(r, p) => GateKept
    BY DEF settingsHandler, saveSetting, blocklistPreviewFor, GateKept
  <2>2. saveWizard(r, p) => GateKept
    BY DEF saveWizard, RecordSetting, GateKept
  <2>3. saveRetention(r, p) => GateKept
    BY DEF saveRetention, GateKept
  <2> QED
    BY <1>1, <2>1, <2>2, <2>3
<1>2. ASSUME NEW r \in Requests,
             MigrateSettings(r) \/ settingRowExists(r) \/ BeginOperation(r) \/ CheckAccess(r) \/ Write(r)
             \/ recordSettingChange(r) \/ Succeed(r)
      PROVE  GateKept
  <2>1. MigrateSettings(r) \/ settingRowExists(r) \/ BeginOperation(r) => GateKept
    BY DEF MigrateSettings, settingRowExists, BeginOperation, GateKept
  <2>2. CheckAccess(r) \/ Write(r) => GateKept
    BY DEF CheckAccess, Write, Ends, GateKept
  <2>3. recordSettingChange(r) \/ Succeed(r) => GateKept
    BY DEF recordSettingChange, Succeed, Ends, GateKept
  <2> QED
    BY <1>2, <2>1, <2>2, <2>3
<1>3. ASSUME NEW r \in Requests, authorizeSetting(r) PROVE GateKept
  BY <1>3 DEF authorizeSetting, JoinQueue, TurnedAway, GateKept
<1>4. ASSUME NEW r \in Requests, AwaitSlot(r) PROVE GateStep
  <2>1. TakeSlot(r) => GateTaken
    BY DEF TakeSlot, GateTaken
  <2>2. LeaveQueue(r) => GateKept
    BY DEF LeaveQueue, GateKept
  <2> QED
    BY <1>4, <2>1, <2>2 DEF AwaitSlot, GateStep
<1>5. ASSUME NEW r \in Requests, Verify(r) PROVE GateStep
  <2>1. WrongPassword(r) => GateFails
    BY DEF WrongPassword, recordFailure, Release, GateFails
  <2>2. RightPassword(r) => GateEmptied
    BY DEF RightPassword, clearFailures, Release, GateEmptied
  <2> QED
    BY <1>5, <2>1, <2>2 DEF Verify, GateStep
<1>6. ASSUME (\E svc \in Services : Report(svc)) \/ Refresh \/ New \/ UNCHANGED settingsVars PROVE GateKept
  BY <1>6 DEF Report, Refresh, New, settingsVars, GateKept
<1>7. SettingsTick => GateAges
  BY DEF SettingsTick, GateTick, GateAges
<1>8. Restart => GateEmptied
  BY DEF Restart, GateRestart, GateEmptied
<1> QED
  BY <1>1, <1>2, <1>3, <1>4, <1>5, <1>6, <1>7, <1>8 DEF SettingsNext, GateStep

\* No wrong passwords and no slots.
LEMMA GateStarts == SettingsInit => GateInv
<1> SUFFICES ASSUME SettingsInit PROVE GateInv
  OBVIOUS
<1>1. failures = <<>> /\ wrong = <<>> /\ slot = {}
  BY DEF SettingsInit, GateInit
<1>2. failures \in Seq(1..GateWindow) /\ Len(failures) = 0 /\ DOMAIN failures = {}
  BY <1>1
<1> QED
  BY <1>1, <1>2, GateAssumption DEF GateInv, Rises

\* Every step of the settings.
LEMMA GateKeeps == GateInv /\ [SettingsNext]_settingsVars => GateInv'
  BY SettingsStepsTheGate, GateStaysBounded

\* What the gate's invariant says of the budget.
LEMMA GateBounds == GateInv => GuessBudget
  BY DEF GateInv, GuessBudget

\* However many forms with a developer password are sent at once, no more
\* wrong ones are compared in a window than the budget holds (devgate.go,
\* decide), for every budget, window and number of forms.
THEOREM TheGateHolds == SettingsSpec => []GuessBudget
  BY GateStarts, GateKeeps, GateBounds, PTL DEF SettingsSpec

-----------------------------------------------------------------------------
(* Settings.                                                               *)

\* What a value can be, and the keys a wizard writes.
Vals == {NoRow} \union (UNION {Inputs[k] : k \in Keys}) \union {File[k] : k \in DOMAIN File}
WizardKeys == {"beacon.sites", "panel.cards", "panel.breakdowns", "panel.site_name", "panel.timezone"}

RequestShape ==
  [kind : {"none", "page", "wizard", "retention", "migrate"}, by : Operators \union {NoOne},
   key : registry \union {"none"}, site : Sites \union {Global}, val : Vals,
   at : {"idle", "gate", "begin", "check", "write", "audit", "finish", "done"},
   todo : SUBSET (registry \X (Sites \union {Global})), auth : Nat]

\* A request as far as it has come: who waits for the password asks for a key
\* behind it, and who is about to write was allowed to.
RequestOK(q) ==
  /\ q.at = "gate" => q.key \in GuardedKeys
  /\ q.at = "begin" => q.kind = "page"
  /\ q.kind = "migrate" => q.key \in DOMAIN File /\ q.val = File[q.key]
  /\ q.kind = "wizard" => q.key \in WizardKeys
  /\ \A row \in q.todo : row[1] \in WizardKeys /\ q.kind = "wizard"
  /\ q.at = "write" => q.kind = "migrate" \/ Editable(AccessTo(q.by, q.site, q.key))

SettingsTypes ==
  /\ store \in [Rows -> Vals]
  /\ req \in [Requests -> RequestShape]
  /\ \A r \in Requests : RequestOK(req[r])

\* A request that has not begun, and one that is over.
LEMMA RestingRequests ==
  /\ Quiet \in RequestShape /\ RequestOK(Quiet) /\ Quiet.at = "idle" /\ Quiet.kind = "none"
  /\ Answered \in RequestShape /\ RequestOK(Answered) /\ Answered.at = "done" /\ Answered.kind = "none"
  /\ Quiet.todo = {} /\ Answered.todo = {}
BY DEF Quiet, Answered, Form, RequestShape, RequestOK, Vals

\* One request moves.
LEMMA OneRequestMoves ==
  ASSUME SettingsTypes, NEW r \in Requests, NEW q, q \in RequestShape, RequestOK(q), req' = [req EXCEPT ![r] = q]
  PROVE  req' \in [Requests -> RequestShape] /\ \A x \in Requests : RequestOK(req'[x])
<1>1. req' \in [Requests -> RequestShape]
  BY DEF SettingsTypes
<1>2. \A x \in Requests : req'[x] = IF x = r THEN q ELSE req[x]
  BY DEF SettingsTypes
<1> QED
  BY <1>1, <1>2 DEF SettingsTypes

\* It moves on, and is what it was.
LEMMA RequestGoes ==
  ASSUME SettingsTypes, NEW r \in Requests,
         NEW to \in {"check", "write", "audit", "finish"}, Goes(r, to),
         to = "write" => req[r].kind = "migrate" \/ Editable(AccessTo(req[r].by, req[r].site, req[r].key))
  PROVE  req' \in [Requests -> RequestShape] /\ \A x \in Requests : RequestOK(req'[x])
<1> DEFINE q == [req[r] EXCEPT !.at = to]
<1>0. req[r] \in RequestShape /\ RequestOK(req[r])
  BY DEF SettingsTypes
<1>1. q \in RequestShape
  BY <1>0 DEF RequestShape
<1>2. /\ q.at = to /\ q.kind = req[r].kind /\ q.key = req[r].key /\ q.val = req[r].val /\ q.todo = req[r].todo
      /\ q.by = req[r].by /\ q.site = req[r].site
  BY <1>0 DEF RequestShape
<1>3. req' = [req EXCEPT ![r] = q]
  BY DEF Goes
<1> HIDE DEF q
<1>4. RequestOK(q)
  BY <1>0, <1>2 DEF RequestOK
<1> QED
  BY <1>1, <1>3, <1>4, OneRequestMoves

\* It is answered.
LEMMA RequestEnds ==
  ASSUME SettingsTypes, NEW r \in Requests, Done(r)
  PROVE  req' \in [Requests -> RequestShape] /\ \A x \in Requests : RequestOK(req'[x])
BY RestingRequests, OneRequestMoves DEF Done

\* It is made.
LEMMA RequestMade ==
  ASSUME SettingsTypes, NEW r \in Requests, NEW q, q \in RequestShape, RequestOK(q), Post(r, q)
  PROVE  req' \in [Requests -> RequestShape] /\ \A x \in Requests : RequestOK(req'[x])
BY OneRequestMoves DEF Post

\* What a form can hold, and what the file does, is a value.
LEMMA FormsHoldValues ==
  /\ NoRow \in Vals
  /\ \A k \in Keys : Inputs[k] \subseteq Vals
  /\ \A k \in DOMAIN File : File[k] \in Vals
<1>1. ASSUME NEW k \in Keys, NEW v \in Inputs[k] PROVE v \in UNION {Inputs[x] : x \in Keys}
  <2>1. Inputs[k] \in {Inputs[x] : x \in Keys}
    OBVIOUS
  <2> QED
    BY <1>1, <2>1
<1>2. \A k \in Keys : Inputs[k] \subseteq Vals
  BY <1>1 DEF Vals
<1>3. \A k \in DOMAIN File : File[k] \in {File[x] : x \in DOMAIN File}
  OBVIOUS
<1>4. \A k \in DOMAIN File : File[k] \in Vals
  BY <1>3 DEF Vals
<1>5. NoRow \in Vals
  BY DEF Vals
<1> QED
  BY <1>2, <1>4, <1>5

\* The keys of the registry that the forms name.
LEMMA KeysAreRegistered ==
  /\ Keys \subseteq registry /\ WizardKeys \subseteq registry /\ "logs.retention_days" \in registry \intersect GuardedKeys
  /\ DOMAIN File \subseteq registry \ (GuardedKeys \union WizardKeys)
  /\ WizardKeys \intersect (GuardedKeys \union BlockKeys) = {}
  /\ GuardedKeys \intersect (BlockKeys \union SiteKeys) = {} /\ BlockKeys \intersect SiteKeys = {}
<1>1. Keys \subseteq registry /\ DOMAIN File \subseteq migrations
  BY SettingsAssumption
<1>2. WizardKeys \subseteq registry /\ "logs.retention_days" \in registry \intersect GuardedKeys
  BY DEF WizardKeys, registry, SiteKeys, GuardedKeys, OpenKeys
<1>3. migrations \subseteq registry
  BY DEF migrations, registry, OpenKeys
<1>4. migrations \intersect GuardedKeys = {} /\ migrations \intersect WizardKeys = {}
  BY DEF migrations, LimitKeys, BlockKeys, GuardedKeys, WizardKeys
<1>5. WizardKeys \intersect (GuardedKeys \union BlockKeys) = {}
  BY DEF WizardKeys, GuardedKeys, BlockKeys
<1>6. GuardedKeys \intersect (BlockKeys \union SiteKeys) = {} /\ BlockKeys \intersect SiteKeys = {}
  BY DEF SiteKeys, GuardedKeys, BlockKeys
<1> QED
  BY <1>1, <1>2, <1>3, <1>4, <1>5, <1>6

\* The rows of a wizard's form.
LEMMA WizardRowsAre ==
  ASSUME NEW k, NEW p
  PROVE  WizardRows(k, p) \subseteq WizardKeys \X (Sites \union {Global})
BY DEF WizardRows, WizardKeys, saveSites, saveVisible, saveSiteNames, saveTimezone

\* Every step keeps the types.
LEMMA SettingsTypesKept == SettingsTypes /\ [SettingsNext]_settingsVars => SettingsTypes'
<1> SUFFICES ASSUME SettingsTypes, [SettingsNext]_settingsVars PROVE SettingsTypes'
  OBVIOUS
<1> DEFINE Moved == req' \in [Requests -> RequestShape] /\ \A x \in Requests : RequestOK(req'[x])
<1>0. \A r \in Requests : req[r] \in RequestShape /\ RequestOK(req[r])
  BY DEF SettingsTypes
<1>1. ASSUME Moved, UNCHANGED store PROVE SettingsTypes'
  BY <1>1 DEF SettingsTypes
<1>2. ASSUME UNCHANGED <<req, store>> PROVE SettingsTypes'
  BY <1>2 DEF SettingsTypes
<1>3. ASSUME NEW r \in Requests, NEW p \in Operators, settingsHandler(r, p) PROVE SettingsTypes'
  <2>1. PICK s \in Sites, k \in Keys :
          \E v \in Inputs[k] \union {NoRow}, onay \in Confirms, current \in Currents(k, s) :
            saveSetting(r, p, s, k, v, onay, current) \/ blocklistPreviewFor(r, p, s, k, v, onay, current)
    BY <1>3 DEF settingsHandler
  <2>2. PICK v \in Inputs[k] \union {NoRow}, onay \in Confirms, current \in Currents(k, s) :
          saveSetting(r, p, s, k, v, onay, current) \/ blocklistPreviewFor(r, p, s, k, v, onay, current)
    BY <2>1
  <2>3. CASE blocklistPreviewFor(r, p, s, k, v, onay, current)
    BY <1>2, <2>3 DEF blocklistPreviewFor, work
  <2>4. CASE saveSetting(r, p, s, k, v, onay, current)
    <3> DEFINE q == Form("page", p, k, s, v, IF k \in GuardedKeys THEN "gate" ELSE "begin", {})
    <3>1. v \in Vals /\ k \in registry
      BY FormsHoldValues, KeysAreRegistered
    <3>2. q \in RequestShape
      BY <3>1 DEF Form, RequestShape
    <3>3. RequestOK(q)
      BY DEF Form, RequestOK
    <3>4. Post(r, q)
      BY <2>4 DEF saveSetting
    <3> HIDE DEF q
    <3> QED
      BY <1>1, <2>4, <3>2, <3>3, <3>4, RequestMade DEF saveSetting
  <2> QED
    BY <2>2, <2>3, <2>4
<1>4. ASSUME NEW r \in Requests, NEW p \in Operators, saveWizard(r, p) PROVE SettingsTypes'
  <2>0. PICK k \in Keys : \E v \in Inputs[k] : RecordSetting(r, p, WizardRows(k, p), v)
    BY <1>4 DEF saveWizard
  <2>1. PICK v \in Inputs[k] : RecordSetting(r, p, WizardRows(k, p), v)
    BY <2>0
  <2>2. PICK row \in WizardRows(k, p) :
          Post(r, Form("wizard", p, row[1], row[2], v, "check", WizardRows(k, p) \ {row}))
    BY <2>1 DEF RecordSetting
  <2> DEFINE q == Form("wizard", p, row[1], row[2], v, "check", WizardRows(k, p) \ {row})
  <2>3. row[1] \in WizardKeys /\ row[2] \in Sites \union {Global} /\ v \in Vals /\ row[1] \in registry
    BY WizardRowsAre, KeysAreRegistered, FormsHoldValues
  <2>4. WizardRows(k, p) \ {row} \in SUBSET (registry \X (Sites \union {Global}))
    BY WizardRowsAre, KeysAreRegistered
  <2>5. \A x \in WizardRows(k, p) \ {row} : x[1] \in WizardKeys
    BY WizardRowsAre
  <2>6. q \in RequestShape
    BY <2>3, <2>4 DEF Form, RequestShape
  <2>7. RequestOK(q)
    BY <2>3, <2>5 DEF Form, RequestOK
  <2> HIDE DEF q
  <2> QED
    BY <1>1, <2>1, <2>2, <2>6, <2>7, RequestMade DEF RecordSetting, q
<1>5. ASSUME NEW r \in Requests, NEW p \in Operators, saveRetention(r, p) PROVE SettingsTypes'
  <2>1. PICK v \in Inputs["logs.retention_days"] :
          Post(r, Form("retention", p, "logs.retention_days", Global, v, "gate", {}))
    BY <1>5 DEF saveRetention
  <2> DEFINE q == Form("retention", p, "logs.retention_days", Global, v, "gate", {})
  <2>2. v \in Vals
    BY <1>5, FormsHoldValues DEF saveRetention
  <2>3. q \in RequestShape
    BY <2>2, KeysAreRegistered DEF Form, RequestShape
  <2>4. RequestOK(q)
    BY KeysAreRegistered DEF Form, RequestOK
  <2> HIDE DEF q
  <2> QED
    BY <1>1, <1>5, <2>1, <2>3, <2>4, RequestMade DEF saveRetention, q
<1>6. ASSUME NEW r \in Requests, MigrateSettings(r) PROVE SettingsTypes'
  <2>1. PICK k \in DOMAIN File : Post(r, Form("migrate", NoOne, k, Global, File[k], "check", {})) /\ UNCHANGED store
    BY <1>6 DEF MigrateSettings
  <2> DEFINE q == Form("migrate", NoOne, k, Global, File[k], "check", {})
  <2>2. q \in RequestShape
    BY FormsHoldValues, KeysAreRegistered DEF Form, RequestShape
  <2>3. RequestOK(q)
    BY DEF Form, RequestOK
  <2> HIDE DEF q
  <2> QED
    BY <1>1, <2>1, <2>2, <2>3, RequestMade DEF q
<1>7. ASSUME NEW r \in Requests, settingRowExists(r) \/ BeginOperation(r) PROVE SettingsTypes'
  <2>1. /\ UNCHANGED store
        /\ (Goes(r, "write") /\ req[r].kind = "migrate") \/ Goes(r, "check") \/ Done(r)
    BY <1>7 DEF settingRowExists, BeginOperation
  <2>2. Moved
    BY <2>1, RequestGoes, RequestEnds
  <2> QED
    BY <1>1, <2>1, <2>2
<1>8. ASSUME NEW r \in Requests, authorizeSetting(r) \/ AwaitSlot(r) PROVE SettingsTypes'
  <2>1. UNCHANGED store /\ (UNCHANGED req \/ Done(r))
    BY <1>8 DEF authorizeSetting, AwaitSlot
  <2> QED
    BY <1>1, <1>2, <2>1, RequestEnds
<1>9. ASSUME NEW r \in Requests, Verify(r) PROVE SettingsTypes'
  <2>1. CASE Done(r)
    BY <1>1, <1>9, <2>1, RequestEnds DEF Verify
  <2>2. CASE ~Done(r)
    <3> DEFINE q == [req[r] EXCEPT !.auth = GrantLifetime, !.at = IF req[r].kind = "page" THEN "begin" ELSE "check"]
    <3>1. req' = [req EXCEPT ![r] = q] /\ UNCHANGED store
      BY <1>9, <2>2 DEF Verify
    <3>2. q \in RequestShape
      BY <1>0, GateAssumption DEF RequestShape
    <3>3. /\ q.at \in {"begin", "check"} /\ (q.at = "begin" => q.kind = "page") /\ q.kind = req[r].kind /\ q.key = req[r].key /\ q.val = req[r].val
          /\ q.todo = req[r].todo
      BY <1>0 DEF RequestShape
    <3> HIDE DEF q
    <3>4. RequestOK(q)
      BY <1>0, <3>3 DEF RequestOK
    <3> QED
      BY <1>1, <3>1, <3>2, <3>4, OneRequestMoves
  <2> QED
    BY <2>1, <2>2
<1>10. ASSUME NEW r \in Requests, CheckAccess(r) PROVE SettingsTypes'
  <2>1. UNCHANGED store
    BY <1>10 DEF CheckAccess, Ends
  <2> DEFINE a == AccessTo(req[r].by, req[r].site, req[r].key)
  <2>2. /\ Goes(r, "write") \/ Ends(r, "refused") \/ Ends(r, "failed")
        /\ Goes(r, "write") /\ ~Ends(r, "refused") /\ ~Ends(r, "failed")
             => a = "writable" \/ Editable(a)
    BY <1>10 DEF CheckAccess
  <2> HIDE DEF a
  <2>3. (Ends(r, "refused") => Done(r)) /\ (Ends(r, "failed") => Done(r)) /\ (a = "writable" => Editable(a))
    BY DEF Editable, Ends, Finish
  <2>4. Done(r) \/ (Goes(r, "write") /\ Editable(a))
    BY <2>2, <2>3
  <2>5. Goes(r, "write") /\ Editable(a) => SettingsTypes'
    BY <1>1, <2>1, RequestGoes DEF a
  <2> QED
    BY <1>1, <2>1, <2>4, <2>5, RequestEnds
<1>11. ASSUME NEW r \in Requests, Write(r) PROVE SettingsTypes'
  <2>1. Done(r) \/ Goes(r, "audit")
    BY <1>11 DEF Write, Ends, Finish
  <2>2. Moved
    BY <2>1, RequestGoes, RequestEnds
  <2>3. store' \in [Rows -> Vals]
    <3>1. req[r].val \in Vals /\ store \in [Rows -> Vals]
      BY <1>0 DEF RequestShape, SettingsTypes
    <3> QED
      BY <1>11, <3>1 DEF Write, Ends
  <2> QED
    BY <2>2, <2>3 DEF SettingsTypes
<1>12. ASSUME NEW r \in Requests, recordSettingChange(r) \/ Succeed(r) PROVE SettingsTypes'
  <2>1. UNCHANGED store
    BY <1>12 DEF recordSettingChange, Succeed, Ends
  <2>2. CASE Done(r)
    BY <1>1, <2>1, <2>2, RequestEnds
  <2>3. CASE Goes(r, "finish")
    BY <1>1, <2>1, <2>3, RequestGoes
  <2>4. ASSUME NEW row \in req[r].todo,
               req' = [req EXCEPT ![r] = [req[r] EXCEPT !.key = row[1], !.site = row[2],
                                                        !.todo = @ \ {row}, !.at = "check"]]
        PROVE  SettingsTypes'
    <3> DEFINE q == [req[r] EXCEPT !.key = row[1], !.site = row[2], !.todo = @ \ {row}, !.at = "check"]
    <3>1. /\ req[r] \in RequestShape /\ row[1] \in registry /\ row[2] \in Sites \union {Global}
          /\ row[1] \in WizardKeys /\ req[r].kind = "wizard"
      BY <1>0 DEF RequestShape, RequestOK
    <3>2. q \in RequestShape
      BY <3>1 DEF RequestShape
    <3>3. q.kind = "wizard" /\ q.at = "check" /\ q.key = row[1] /\ q.todo = req[r].todo \ {row}
      BY <3>1 DEF RequestShape
    <3>4. req' = [req EXCEPT ![r] = q]
      BY <2>4
    <3> HIDE DEF q
    <3>5. RequestOK(q)
      BY <1>0, <3>1, <3>3 DEF RequestOK
    <3> QED
      BY <1>1, <2>1, <3>2, <3>4, <3>5, OneRequestMoves
  <2> QED
    BY <1>12, <2>2, <2>3, <2>4 DEF recordSettingChange, NextOfForm, Succeed, Ends, Finish
<1>13. CASE SettingsTick
  <2>1. req' = [r \in Requests |-> [req[r] EXCEPT !.auth = IF @ > 0 THEN @ - 1 ELSE 0]] /\ UNCHANGED store
    BY <1>13 DEF SettingsTick
  <2>2. ASSUME NEW r \in Requests
        PROVE  /\ req'[r] \in RequestShape /\ req'[r].at = req[r].at /\ req'[r].kind = req[r].kind
               /\ req'[r].key = req[r].key /\ req'[r].val = req[r].val /\ req'[r].todo = req[r].todo
               /\ req'[r].by = req[r].by /\ req'[r].site = req[r].site
    <3>1. req'[r] = [req[r] EXCEPT !.auth = IF @ > 0 THEN @ - 1 ELSE 0]
      BY <2>1
    <3> QED
      BY <1>0, <3>1 DEF RequestShape
  <2>3. req' \in [Requests -> RequestShape]
    BY <2>1, <2>2
  <2>4. \A r \in Requests : RequestOK(req'[r])
    BY <1>0, <2>2 DEF RequestOK
  <2> QED
    BY <1>1, <2>1, <2>3, <2>4
<1>14. CASE Restart
  <2>1. req' = [r \in Requests |-> IF req[r].at = "idle" THEN Quiet ELSE Answered] /\ UNCHANGED store
    BY <1>14 DEF Restart
  <2> QED
    BY <1>1, <2>1, RestingRequests
<1>15. ASSUME (\E svc \in Services : Report(svc)) \/ Refresh \/ New \/ UNCHANGED settingsVars
       PROVE  UNCHANGED <<req, store>>
  BY <1>15 DEF Report, Refresh, New, settingsVars, work
<1> QED
  BY <1>2, <1>3, <1>4, <1>5, <1>6, <1>7, <1>8, <1>9, <1>10, <1>11, <1>12, <1>13, <1>14, <1>15 DEF SettingsNext

\* A value that is written to a key behind the password is written by an
\* operator, who typed it in time.
LEMMA GuardedWrites == SettingsTypes /\ [SettingsNext]_settingsVars
  => \A k \in GuardedKeys \intersect Keys :
       store'[<<k, Global>>] # store[<<k, Global>>] =>
         \E r \in Requests : req[r].key = k /\ req[r].auth > 0 /\ operator(req[r].by)
<1> SUFFICES ASSUME SettingsTypes, [SettingsNext]_settingsVars, NEW k \in GuardedKeys \intersect Keys,
                    store'[<<k, Global>>] # store[<<k, Global>>]
             PROVE  \E r \in Requests : req[r].key = k /\ req[r].auth > 0 /\ operator(req[r].by)
  OBVIOUS
<1>1. ASSUME NEW r \in Requests, Write(r) PROVE req[r].key = k /\ req[r].auth > 0 /\ operator(req[r].by)
  <2>1. /\ Authorizes(r) /\ req[r].at = "write"
        /\ store' = [store EXCEPT ![<<req[r].key, ScopeOf(req[r].key, req[r].site)>>] = req[r].val]
    BY <1>1 DEF Write, Ends
  <2>2. req[r].key = k
    BY <2>1 DEF SettingsTypes
  <2>3. req[r].kind = "migrate" \/ Editable(AccessTo(req[r].by, req[r].site, k))
    BY <2>1, <2>2 DEF SettingsTypes, RequestOK
  <2>4. req[r].kind # "migrate"
    BY <2>2, KeysAreRegistered DEF SettingsTypes, RequestOK
  <2>5. AccessTo(req[r].by, req[r].site, k) = IF operator(req[r].by) THEN "gated" ELSE "locked"
    BY DEF AccessTo
  <2>6. operator(req[r].by)
    BY <2>3, <2>4, <2>5 DEF Editable
  <2> QED
    BY <2>1, <2>2, <2>6 DEF Authorizes
<1>2. ASSUME NEW r \in Requests, NEW p \in Operators, settingsHandler(r, p) \/ saveWizard(r, p) \/ saveRetention(r, p)
      PROVE  UNCHANGED store
  BY <1>2 DEF settingsHandler, saveSetting, blocklistPreviewFor, saveWizard, RecordSetting, saveRetention
<1>3. ASSUME NEW r \in Requests,
             \/ MigrateSettings(r) \/ settingRowExists(r) \/ authorizeSetting(r) \/ AwaitSlot(r) \/ Verify(r)
             \/ BeginOperation(r) \/ CheckAccess(r) \/ recordSettingChange(r) \/ Succeed(r)
      PROVE  UNCHANGED store
  BY <1>3 DEF MigrateSettings, settingRowExists, authorizeSetting, AwaitSlot, Verify, BeginOperation, CheckAccess,
              recordSettingChange, Succeed, Ends
<1>4. ASSUME (\E svc \in Services : Report(svc)) \/ Refresh \/ New \/ SettingsTick \/ Restart
             \/ UNCHANGED settingsVars
      PROVE  UNCHANGED store
  BY <1>4 DEF Report, Refresh, New, SettingsTick, Restart, settingsVars
<1> QED
  BY <1>1, <1>2, <1>3, <1>4 DEF SettingsNext

\* Nobody has asked for anything when the panel starts.
LEMMA SettingsStart == SettingsInit => SettingsTypes
BY RestingRequests, FormsHoldValues DEF SettingsInit, SettingsTypes

\* A setting behind the developer password changes only for an operator who
\* typed that password for it and in time (settings.go, SetGuardedSetting;
\* settings_access.go), for every set of keys, sites and accounts.
THEOREM GuardedDoNeedThePassword == SettingsSpec => GuardedNeedsPassword
<1>1. SettingsTypes /\ [SettingsNext]_settingsVars
      => [\A k \in GuardedKeys \intersect Keys :
            store'[<<k, Global>>] # store[<<k, Global>>] =>
              \E r \in Requests : req[r].key = k /\ req[r].auth > 0 /\ operator(req[r].by)]_settingsVars
  BY GuardedWrites
<1> QED
  BY <1>1, SettingsStart, SettingsTypesKept, PTL DEF SettingsSpec, GuardedNeedsPassword

-----------------------------------------------------------------------------
(* What was shown, and what is on record.                                  *)

\* The rules that a page told of, or that the file brought.
Shown(k) ==
  (UNION {Told(page) : page \in previews}) \union (IF k \in DOMAIN File THEN File[k] ELSE {})

\* A page tells of every rule it confirms.
PagesTell == \A page \in previews : Told(page) = page.rules

\* What can be drawn does.
LEMMA PagesTellAll ==
  ASSUME NEW added, NEW page \in Pages(added)
  PROVE  page.rules = added /\ Told(page) = added
<1>1. CASE page = [rules |-> added, unread |-> FALSE, counted |-> Asked(added)]
  <2>1. page.rules = added /\ page.counted = Asked(added)
    BY <1>1
  <2>2. CASE OverLimit(added)
    BY <2>1, <2>2 DEF Told
  <2>3. CASE ~OverLimit(added)
    BY <2>1, <2>3 DEF Told, Asked
  <2> QED
    BY <2>2, <2>3
<1>2. CASE page = [rules |-> added, unread |-> TRUE, counted |-> {}]
  BY <1>2 DEF Told
<1> QED
  BY <1>1, <1>2 DEF Pages

\* A list that is about to be written by somebody who may holds nothing else.
ListOK(q) ==
  q.key \in BlockKeys /\ q.val # NoRow /\ q.val # Bad =>
    /\ q.kind = "migrate" => q.val \subseteq Shown(q.key)
    /\ q.kind # "migrate" /\ q.at \in {"begin", "check", "write"} /\ AccessTo(q.by, q.site, q.key) = "writable"
         => q.val \subseteq Shown(q.key)

ShownInv == RulesWereShown /\ PagesTell /\ \A r \in Requests : ListOK(req[r])

\* What the row of a request can say, from where it stands and from what it
\* has done.
RecordOK(q, rec, eff) ==
  /\ q.at = "idle" => rec = "none" /\ eff = "nothing"
  /\ q.at # "done" => rec \in {"none", "open"}
  /\ rec = "open" /\ q.at # "done" => q.kind = "page"
  /\ q.kind = "page" => q.todo = {}
  /\ q.kind = "page" /\ q.at \in {"gate", "begin", "check", "write"} => eff = "nothing"
  /\ q.at = "finish" => eff = "logged"
  /\ rec = "succeeded" => eff = "logged"
  /\ rec = "refused" => eff = "nothing"

RecordInv ==
  /\ record \in [Requests -> {"none", "open", "succeeded", "refused", "failed"}]
  /\ effect \in [Requests -> {"nothing", "written", "logged"}]
  /\ \A r \in Requests : RecordOK(req[r], record[r], effect[r])

\* One request moves, with its row and its history.
LEMMA OneRecordMoves ==
  ASSUME SettingsTypes, RecordInv, NEW r \in Requests, NEW q, req' = [req EXCEPT ![r] = q],
         NEW rec \in {"none", "open", "succeeded", "refused", "failed"}, record' = [record EXCEPT ![r] = rec],
         NEW eff \in {"nothing", "written", "logged"}, effect' = [effect EXCEPT ![r] = eff],
         RecordOK(q, rec, eff)
  PROVE  RecordInv'
<1>1. /\ record' \in [Requests -> {"none", "open", "succeeded", "refused", "failed"}]
      /\ effect' \in [Requests -> {"nothing", "written", "logged"}]
  BY DEF RecordInv
<1>2. ASSUME NEW x \in Requests PROVE RecordOK(req'[x], record'[x], effect'[x])
  <2>1. CASE x = r
    <3>1. req'[x] = q /\ record'[x] = rec /\ effect'[x] = eff
      BY <2>1 DEF RecordInv, SettingsTypes
    <3> QED
      BY <3>1
  <2>2. CASE x # r
    <3>1. req'[x] = req[x] /\ record'[x] = record[x] /\ effect'[x] = effect[x]
      BY <2>2 DEF RecordInv, SettingsTypes
    <3> QED
      BY <3>1 DEF RecordInv
  <2> QED
    BY <2>1, <2>2
<1> QED
  BY <1>1, <1>2 DEF RecordInv, RecordOK

\* A row or a history that does not change, for the lemma above.
LEMMA StaysAsItIs ==
  ASSUME RecordInv, NEW r \in Requests
  PROVE  /\ UNCHANGED record => record' = [record EXCEPT ![r] = record[r]]
         /\ UNCHANGED effect => effect' = [effect EXCEPT ![r] = effect[r]]
         /\ record[r] \in {"none", "open", "succeeded", "refused", "failed"}
         /\ effect[r] \in {"nothing", "written", "logged"}
         /\ RecordOK(req[r], record[r], effect[r])
BY DEF RecordInv

\* Who holds a place in the gate's queue has been let no further.
Waiting == slot \subseteq queued /\ queued \subseteq Requests /\ \A r \in queued : req[r].at = "gate"

\* Whoever waits for the password waits while another request leaves.
LEMMA OthersWait ==
  ASSUME SettingsTypes, Waiting, NEW r \in Requests, NEW q, req' = [req EXCEPT ![r] = q],
         slot' \subseteq slot, queued' \subseteq queued, slot' \subseteq queued', r \notin queued'
  PROVE  Waiting'
<1>1. \A x \in queued' : req'[x] = req[x]
  BY DEF SettingsTypes, Waiting
<1> QED
  BY <1>1 DEF Waiting

\* Every step keeps the queue and the requests together.
LEMMA WaitingKept == SettingsTypes /\ Waiting /\ [SettingsNext]_settingsVars => Waiting'
<1> SUFFICES ASSUME SettingsTypes, Waiting, [SettingsNext]_settingsVars PROVE Waiting'
  OBVIOUS
<1> USE DEF gate, work
<1>1. ASSUME NEW r \in Requests, req[r].at # "gate", UNCHANGED <<slot, queued>>, \E q : req' = [req EXCEPT ![r] = q]
      PROVE  Waiting'
  <2>1. r \notin queued'
    BY <1>1 DEF Waiting
  <2> QED
    BY <1>1, <2>1, OthersWait DEF Waiting
<1>2. ASSUME UNCHANGED <<slot, queued, req>> PROVE Waiting'
  BY <1>2 DEF Waiting
<1>3. ASSUME NEW r \in Requests, NEW p \in Operators, settingsHandler(r, p) \/ saveWizard(r, p) \/ saveRetention(r, p)
      PROVE  Waiting'
  <2>1. UNCHANGED <<slot, queued>> /\ (UNCHANGED req \/ \E q : Post(r, q))
    BY <1>3 DEF settingsHandler, saveSetting, blocklistPreviewFor, saveWizard, RecordSetting, saveRetention
  <2>2. UNCHANGED req \/ (req[r].at # "gate" /\ \E q : req' = [req EXCEPT ![r] = q])
    BY <2>1 DEF Post
  <2> QED
    BY <1>1, <1>2, <2>1, <2>2
<1>4. ASSUME NEW r \in Requests, MigrateSettings(r) \/ settingRowExists(r) \/ BeginOperation(r) PROVE Waiting'
  <2>1. UNCHANGED <<slot, queued>> /\ req[r].at # "gate"
    BY <1>4 DEF MigrateSettings, Post, settingRowExists, BeginOperation
  <2>2. \E q : req' = [req EXCEPT ![r] = q]
    BY <1>4 DEF MigrateSettings, Post, settingRowExists, BeginOperation, Goes, Done
  <2> QED
    BY <1>1, <2>1, <2>2
<1>5. ASSUME NEW r \in Requests, CheckAccess(r) \/ Write(r) \/ recordSettingChange(r) \/ Succeed(r) PROVE Waiting'
  <2>1. UNCHANGED <<slot, queued>> /\ req[r].at # "gate"
    BY <1>5 DEF CheckAccess, Write, recordSettingChange, Succeed, Ends
  <2>2. CASE CheckAccess(r) \/ Write(r)
    BY <1>1, <2>1, <2>2 DEF CheckAccess, Write, Ends, Finish, Goes, Done
  <2>3. CASE recordSettingChange(r) \/ Succeed(r)
    BY <1>1, <2>1, <2>3 DEF recordSettingChange, NextOfForm, Succeed, Ends, Finish, Goes, Done
  <2> QED
    BY <1>5, <2>2, <2>3
<1>6. ASSUME NEW r \in Requests, authorizeSetting(r) PROVE Waiting'
  <2>1. CASE JoinQueue(r) /\ UNCHANGED req
    BY <1>6, <2>1 DEF authorizeSetting, JoinQueue, Waiting
  <2>2. CASE Done(r) /\ UNCHANGED gate
    <3>1. r \notin queued'
      BY <1>6, <2>2 DEF authorizeSetting
    <3> QED
      BY <2>2, <3>1, OthersWait DEF Done, Waiting
  <2> QED
    BY <1>6, <2>1, <2>2 DEF authorizeSetting, TurnedAway
<1>7. ASSUME NEW r \in Requests, AwaitSlot(r) PROVE Waiting'
  <2>1. CASE TakeSlot(r) /\ UNCHANGED req
    BY <2>1 DEF TakeSlot, Waiting
  <2>2. CASE LeaveQueue(r) /\ Done(r)
    BY <2>2, OthersWait DEF LeaveQueue, Done, Waiting
  <2> QED
    BY <1>7, <2>1, <2>2 DEF AwaitSlot
<1>8. ASSUME NEW r \in Requests, Verify(r) PROVE Waiting'
  <2>1. Release(r) /\ \E q : req' = [req EXCEPT ![r] = q]
    BY <1>8 DEF Verify, WrongPassword, RightPassword, recordFailure, clearFailures, Done
  <2> QED
    BY <2>1, OthersWait DEF Release, Waiting
<1>9. CASE SettingsTick
  <2>1. \A r \in Requests : req'[r].at = req[r].at
    BY <1>9 DEF SettingsTick, SettingsTypes, RequestShape
  <2>2. UNCHANGED <<slot, queued>>
    BY <1>9 DEF SettingsTick, GateTick
  <2> QED
    BY <2>1, <2>2 DEF Waiting
<1>10. CASE Restart
  BY <1>10 DEF Restart, GateRestart, Waiting
<1>11. ASSUME (\E svc \in Services : Report(svc)) \/ Refresh \/ New \/ UNCHANGED settingsVars
       PROVE  UNCHANGED <<slot, queued, req>>
  BY <1>11 DEF Report, Refresh, New, settingsVars
<1> QED
  BY <1>2, <1>3, <1>4, <1>5, <1>6, <1>7, <1>8, <1>9, <1>10, <1>11 DEF SettingsNext

\* A request moves, and neither its row nor its history.
LEMMA OnlyTheRequestMoves ==
  ASSUME SettingsTypes, RecordInv, NEW r \in Requests, NEW q, req' = [req EXCEPT ![r] = q],
         record' = record, effect' = effect, RecordOK(q, record[r], effect[r])
  PROVE  RecordInv'
<1>1. ASSUME NEW x \in Requests PROVE RecordOK(req'[x], record[x], effect[x])
  <2>1. CASE x = r
    <3>1. req'[x] = q
      BY <2>1 DEF SettingsTypes
    <3> QED
      BY <2>1, <3>1
  <2>2. CASE x # r
    <3>1. req'[x] = req[x]
      BY <2>2 DEF SettingsTypes
    <3> QED
      BY <3>1 DEF RecordInv
  <2> QED
    BY <2>1, <2>2
<1> QED
  BY <1>1 DEF RecordInv, RecordOK

\* A request ends without a word about how.
LEMMA RecordAnswered ==
  ASSUME SettingsTypes, RecordInv, NEW r \in Requests, Done(r), UNCHANGED <<record, effect>>
  PROVE  RecordInv'
<1>1. RecordOK(Answered, record[r], effect[r])
  <2>1. Answered.at = "done" /\ Answered.kind = "none" /\ Answered.todo = {}
    BY RestingRequests
  <2> QED
    BY <2>1, StaysAsItIs DEF RecordOK
<1> QED
  BY <1>1, OnlyTheRequestMoves DEF Done

\* A request ends, and its row is closed.
LEMMA RecordFinished ==
  ASSUME SettingsTypes, RecordInv, NEW r \in Requests,
         NEW outcome \in {"succeeded", "refused", "failed"}, Finish(r, outcome), UNCHANGED effect,
         outcome = "succeeded" => effect[r] = "logged",
         outcome = "refused" /\ record[r] = "open" => effect[r] = "nothing"
  PROVE  RecordInv'
<1> DEFINE rec == IF record[r] = "open" THEN outcome ELSE record[r]
<1>1. record[r] \in {"none", "open", "succeeded", "refused", "failed"}
  BY StaysAsItIs
<1>2. /\ rec \in {"none", "open", "succeeded", "refused", "failed"}
      /\ rec = "succeeded" => effect[r] = "logged"
      /\ rec = "refused" => effect[r] = "nothing"
  BY <1>1, StaysAsItIs DEF RecordOK
<1>3. record' = [record EXCEPT ![r] = rec]
  BY DEF Finish
<1> HIDE DEF rec
<1>4. RecordOK(Answered, rec, effect[r])
  <2>1. Answered.at = "done" /\ Answered.kind = "none" /\ Answered.todo = {}
    BY RestingRequests
  <2> QED
    BY <1>2, <2>1 DEF RecordOK
<1>5. effect' = [effect EXCEPT ![r] = effect[r]] /\ effect[r] \in {"nothing", "written", "logged"}
  BY StaysAsItIs
<1>6. req' = [req EXCEPT ![r] = Answered]
  BY DEF Finish, Done
<1>7. rec \in {"none", "open", "succeeded", "refused", "failed"}
  BY <1>2
<1> QED
  BY <1>3, <1>4, <1>5, <1>6, <1>7, OneRecordMoves

\* A request goes on.
LEMMA RecordGoesOn ==
  ASSUME SettingsTypes, RecordInv, NEW r \in Requests,
         NEW to \in {"check", "write", "audit", "finish"}, Goes(r, to),
         NEW rec \in {"none", "open"}, record' = [record EXCEPT ![r] = rec],
         NEW eff \in {"nothing", "written", "logged"}, effect' = [effect EXCEPT ![r] = eff],
         rec = "open" => req[r].kind = "page",
         to = "finish" => eff = "logged",
         req[r].kind = "page" /\ to \in {"check", "write"} => eff = "nothing"
  PROVE  RecordInv'
<1> DEFINE q == [req[r] EXCEPT !.at = to]
<1>1. req' = [req EXCEPT ![r] = q]
  BY DEF Goes
<1>2. q.at = to /\ q.kind = req[r].kind /\ q.todo = req[r].todo
  BY DEF SettingsTypes, RequestShape
<1> HIDE DEF q
<1>3. RecordOK(q, rec, eff)
  <2>1. req[r].kind = "page" => req[r].todo = {}
    BY StaysAsItIs DEF RecordOK
  <2> QED
    BY <1>2, <2>1 DEF RecordOK
<1> QED
  BY <1>1, <1>3, OneRecordMoves

\* A request is made.
LEMMA RecordMade ==
  ASSUME SettingsTypes, RecordInv, NEW r \in Requests, NEW q, Post(r, q), UNCHANGED <<record, effect>>,
         q.at \notin {"idle", "finish"}, q.kind = "page" => q.todo = {}
  PROVE  RecordInv'
<1>1. req[r].at = "idle" /\ req' = [req EXCEPT ![r] = q]
  BY DEF Post
<1>2. record[r] = "none" /\ effect[r] = "nothing"
  BY <1>1, StaysAsItIs DEF RecordOK
<1>3. RecordOK(q, record[r], effect[r])
  BY <1>2 DEF RecordOK
<1> QED
  BY <1>1, <1>3, OnlyTheRequestMoves

\* Every step keeps the records true.
LEMMA RecordsKept == SettingsTypes /\ Waiting /\ RecordInv /\ [SettingsNext]_settingsVars => RecordInv'
<1> SUFFICES ASSUME SettingsTypes, Waiting, RecordInv, [SettingsNext]_settingsVars PROVE RecordInv'
  OBVIOUS
<1> USE DEF work
<1>0. \A r \in Requests : req[r] \in RequestShape /\ RequestOK(req[r]) /\ RecordOK(req[r], record[r], effect[r])
  BY DEF SettingsTypes, RecordInv
<1>1. ASSUME UNCHANGED <<req, record, effect>> PROVE RecordInv'
  BY <1>1 DEF RecordInv
<1>2. ASSUME NEW r \in Requests, NEW p \in Operators, settingsHandler(r, p) PROVE RecordInv'
  <2>1. PICK s \in Sites, k \in Keys :
          \E v \in Inputs[k] \union {NoRow}, onay \in Confirms, current \in Currents(k, s) :
            saveSetting(r, p, s, k, v, onay, current) \/ blocklistPreviewFor(r, p, s, k, v, onay, current)
    BY <1>2 DEF settingsHandler
  <2>2. PICK v \in Inputs[k] \union {NoRow}, onay \in Confirms, current \in Currents(k, s) :
          saveSetting(r, p, s, k, v, onay, current) \/ blocklistPreviewFor(r, p, s, k, v, onay, current)
    BY <2>1
  <2>3. CASE blocklistPreviewFor(r, p, s, k, v, onay, current)
    BY <1>1, <2>3 DEF blocklistPreviewFor
  <2>4. CASE saveSetting(r, p, s, k, v, onay, current)
    <3> DEFINE q == Form("page", p, k, s, v, IF k \in GuardedKeys THEN "gate" ELSE "begin", {})
    <3>1. q.at \notin {"idle", "finish"} /\ q.todo = {}
      BY DEF Form
    <3>2. Post(r, q)
      BY <2>4 DEF saveSetting
    <3>3. UNCHANGED <<record, effect>>
      BY <3>2 DEF Post
    <3> HIDE DEF q
    <3> QED
      BY <3>1, <3>2, <3>3, RecordMade
  <2> QED
    BY <2>2, <2>3, <2>4
<1>3. ASSUME NEW r \in Requests, NEW p \in Operators, saveWizard(r, p) PROVE RecordInv'
  <2>1. PICK k \in Keys : \E v \in Inputs[k] : RecordSetting(r, p, WizardRows(k, p), v)
    BY <1>3 DEF saveWizard
  <2>2. PICK v \in Inputs[k] : RecordSetting(r, p, WizardRows(k, p), v)
    BY <2>1
  <2>3. PICK row \in WizardRows(k, p) :
          Post(r, Form("wizard", p, row[1], row[2], v, "check", WizardRows(k, p) \ {row}))
    BY <2>2 DEF RecordSetting
  <2> DEFINE q == Form("wizard", p, row[1], row[2], v, "check", WizardRows(k, p) \ {row})
  <2>4. q.at \notin {"idle", "finish"} /\ q.kind # "page"
    BY DEF Form
  <2>5. Post(r, q) /\ UNCHANGED <<record, effect>>
    BY <2>3 DEF Post
  <2> HIDE DEF q
  <2> QED
    BY <2>4, <2>5, RecordMade
<1>4. ASSUME NEW r \in Requests, NEW p \in Operators, saveRetention(r, p) PROVE RecordInv'
  <2>1. PICK v \in Inputs["logs.retention_days"] :
          Post(r, Form("retention", p, "logs.retention_days", Global, v, "gate", {}))
    BY <1>4 DEF saveRetention
  <2> DEFINE q == Form("retention", p, "logs.retention_days", Global, v, "gate", {})
  <2>2. q.at \notin {"idle", "finish"} /\ q.kind # "page"
    BY DEF Form
  <2>3. Post(r, q) /\ UNCHANGED <<record, effect>>
    BY <2>1 DEF Post
  <2> HIDE DEF q
  <2> QED
    BY <2>2, <2>3, RecordMade
<1>5. ASSUME NEW r \in Requests, MigrateSettings(r) PROVE RecordInv'
  <2>1. PICK k \in DOMAIN File : Post(r, Form("migrate", NoOne, k, Global, File[k], "check", {}))
    BY <1>5 DEF MigrateSettings
  <2> DEFINE q == Form("migrate", NoOne, k, Global, File[k], "check", {})
  <2>2. q.at \notin {"idle", "finish"} /\ q.kind # "page"
    BY DEF Form
  <2>3. Post(r, q) /\ UNCHANGED <<record, effect>>
    BY <2>1 DEF Post
  <2> HIDE DEF q
  <2> QED
    BY <2>2, <2>3, RecordMade
<1>6. ASSUME NEW r \in Requests, settingRowExists(r) PROVE RecordInv'
  <2>1. UNCHANGED <<record, effect>> /\ req[r].kind = "migrate" /\ req[r].at = "check"
    BY <1>6 DEF settingRowExists
  <2>2. record[r] = "none"
    BY <1>0, <2>1 DEF RecordOK
  <2>3. Goes(r, "write") => RecordInv'
    BY <2>1, <2>2, StaysAsItIs, RecordGoesOn
  <2> QED
    BY <1>6, <2>1, <2>3, RecordAnswered DEF settingRowExists
<1>7. ASSUME NEW r \in Requests, BeginOperation(r) PROVE RecordInv'
  <2>1. /\ req[r].at = "begin" /\ Goes(r, "check") /\ UNCHANGED effect
        /\ record' = [record EXCEPT ![r] = "open"] \/ UNCHANGED record
    BY <1>7 DEF BeginOperation
  <2>2. req[r].kind = "page" /\ record[r] \in {"none", "open"} /\ effect[r] = "nothing"
    BY <1>0, <2>1 DEF RequestOK, RecordOK
  <2>3. effect' = [effect EXCEPT ![r] = effect[r]]
    BY <2>1, StaysAsItIs
  <2>4. record' = [record EXCEPT ![r] = "open"] => RecordInv'
    BY <2>1, <2>2, <2>3, RecordGoesOn
  <2>5. UNCHANGED record => RecordInv'
    BY <2>1, <2>2, <2>3, StaysAsItIs, RecordGoesOn
  <2> QED
    BY <2>1, <2>4, <2>5
<1>8. ASSUME NEW r \in Requests, authorizeSetting(r) \/ AwaitSlot(r) PROVE RecordInv'
  <2>1. UNCHANGED <<record, effect>> /\ (UNCHANGED req \/ Done(r))
    BY <1>8 DEF authorizeSetting, AwaitSlot
  <2> QED
    BY <1>1, <2>1, RecordAnswered
<1>9. ASSUME NEW r \in Requests, Verify(r) PROVE RecordInv'
  <2>1. UNCHANGED <<record, effect>>
    BY <1>9 DEF Verify
  <2>2. CASE Done(r)
    BY <2>1, <2>2, RecordAnswered
  <2>3. CASE ~Done(r)
    <3> DEFINE q == [req[r] EXCEPT !.auth = GrantLifetime, !.at = IF req[r].kind = "page" THEN "begin" ELSE "check"]
    <3>1. req' = [req EXCEPT ![r] = q] /\ r \in slot
      BY <1>9, <2>3 DEF Verify, RightPassword, clearFailures
    <3>2. q.at \in {"begin", "check"} /\ q.kind = req[r].kind /\ q.todo = req[r].todo
      BY <1>0 DEF RequestShape
    <3> HIDE DEF q
    <3>3. req[r].at = "gate"
      BY <3>1 DEF Waiting
    <3>4. RecordOK(q, record[r], effect[r])
      BY <1>0, <3>2, <3>3 DEF RecordOK
    <3>5. /\ record' = [record EXCEPT ![r] = record[r]] /\ effect' = [effect EXCEPT ![r] = effect[r]]
          /\ record[r] \in {"none", "open", "succeeded", "refused", "failed"}
          /\ effect[r] \in {"nothing", "written", "logged"}
      BY <2>1, StaysAsItIs
    <3> QED
      BY <3>1, <3>4, <3>5, OneRecordMoves
  <2> QED
    BY <2>2, <2>3
<1>10. ASSUME NEW r \in Requests, CheckAccess(r) PROVE RecordInv'
  <2>1. UNCHANGED effect /\ req[r].at = "check" /\ effect' = [effect EXCEPT ![r] = effect[r]]
    BY <1>10, StaysAsItIs DEF CheckAccess, Ends
  <2>2. record[r] = "open" => effect[r] = "nothing" /\ req[r].kind = "page"
    BY <1>0, <2>1 DEF RecordOK
  <2>3. CASE Goes(r, "write") /\ UNCHANGED record
    <3>1. record[r] \in {"none", "open"} /\ (req[r].kind = "page" => effect[r] = "nothing")
      BY <1>0, <2>1 DEF RecordOK
    <3> QED
      BY <2>1, <2>2, <2>3, <3>1, StaysAsItIs, RecordGoesOn
  <2>4. CASE Finish(r, "refused") \/ Finish(r, "failed")
    BY <2>1, <2>2, <2>4, RecordFinished
  <2> QED
    BY <1>10, <2>3, <2>4 DEF CheckAccess, Ends
<1>11. ASSUME NEW r \in Requests, Write(r) PROVE RecordInv'
  <2>1. req[r].at = "write"
    BY <1>11 DEF Write
  <2>2. record[r] \in {"none", "open"} /\ (record[r] = "open" => effect[r] = "nothing" /\ req[r].kind = "page")
    BY <1>0, <2>1 DEF RecordOK
  <2>3. CASE Goes(r, "audit") /\ UNCHANGED record /\ effect' = [effect EXCEPT ![r] = "written"]
    BY <2>2, <2>3, StaysAsItIs, RecordGoesOn
  <2>4. CASE (Finish(r, "refused") \/ Finish(r, "failed")) /\ UNCHANGED effect
    BY <2>2, <2>4, RecordFinished
  <2> QED
    BY <1>11, <2>3, <2>4 DEF Write, Ends
<1>12. ASSUME NEW r \in Requests, recordSettingChange(r) PROVE RecordInv'
  <2>1. req[r].at = "audit"
    BY <1>12 DEF recordSettingChange
  <2>2. record[r] \in {"none", "open"} /\ (record[r] = "open" => req[r].kind = "page")
    BY <1>0, <2>1 DEF RecordOK
  <2>3. CASE NextOfForm(r) /\ effect' = [effect EXCEPT ![r] = "logged"] /\ UNCHANGED record
    <3>1. CASE Goes(r, "finish")
      BY <2>2, <2>3, <3>1, StaysAsItIs, RecordGoesOn
    <3>2. ASSUME NEW row \in req[r].todo,
                 req' = [req EXCEPT ![r] = [req[r] EXCEPT !.key = row[1], !.site = row[2],
                                                          !.todo = @ \ {row}, !.at = "check"]]
          PROVE  RecordInv'
      <4> DEFINE q == [req[r] EXCEPT !.key = row[1], !.site = row[2], !.todo = @ \ {row}, !.at = "check"]
      <4>1. q.kind = req[r].kind /\ q.at = "check"
        BY <1>0 DEF RequestShape
      <4>2. req[r].kind = "wizard"
        BY <1>0 DEF RequestOK
      <4>3. req' = [req EXCEPT ![r] = q]
        BY <3>2
      <4> HIDE DEF q
      <4>4. record[r] = "none"
        BY <2>2, <4>2
      <4>5. RecordOK(q, record[r], "logged")
        BY <4>1, <4>2, <4>4 DEF RecordOK
      <4>6. record' = [record EXCEPT ![r] = record[r]]
        BY <2>3, StaysAsItIs
      <4> QED
        BY <2>3, <4>3, <4>4, <4>5, <4>6, OneRecordMoves
    <3> QED
      BY <2>3, <3>1, <3>2 DEF NextOfForm
  <2>4. CASE Done(r) /\ UNCHANGED <<record, effect>>
    BY <2>4, RecordAnswered
  <2>5. CASE Finish(r, "failed") /\ UNCHANGED effect
    BY <2>5, RecordFinished
  <2> QED
    BY <1>12, <2>3, <2>4, <2>5 DEF recordSettingChange, Ends
<1>13. ASSUME NEW r \in Requests, Succeed(r) PROVE RecordInv'
  <2>1. req[r].at = "finish" /\ Finish(r, "succeeded") /\ UNCHANGED effect
    BY <1>13 DEF Succeed, Ends
  <2>2. effect[r] = "logged"
    BY <1>0, <2>1 DEF RecordOK
  <2> QED
    BY <2>1, <2>2, RecordFinished
<1>14. CASE SettingsTick
  <2>1. req' = [r \in Requests |-> [req[r] EXCEPT !.auth = IF @ > 0 THEN @ - 1 ELSE 0]] /\ UNCHANGED <<record, effect>>
    BY <1>14 DEF SettingsTick
  <2>2. ASSUME NEW r \in Requests PROVE RecordOK(req'[r], record[r], effect[r])
    <3>1. req'[r] = [req[r] EXCEPT !.auth = IF @ > 0 THEN @ - 1 ELSE 0]
      BY <2>1
    <3>2. req'[r].at = req[r].at /\ req'[r].kind = req[r].kind /\ req'[r].todo = req[r].todo
      BY <1>0, <3>1 DEF RequestShape
    <3> QED
      BY <1>0, <3>2 DEF RecordOK
  <2> QED
    BY <2>1, <2>2 DEF RecordInv
<1>15. CASE Restart
  <2>1. req' = [r \in Requests |-> IF req[r].at = "idle" THEN Quiet ELSE Answered] /\ UNCHANGED <<record, effect>>
    BY <1>15 DEF Restart
  <2>2. ASSUME NEW r \in Requests PROVE RecordOK(req'[r], record[r], effect[r])
    <3>1. CASE req[r].at = "idle"
      BY <1>0, <2>1, <3>1, RestingRequests DEF RecordOK
    <3>2. CASE req[r].at # "idle"
      BY <1>0, <2>1, <3>2, RestingRequests DEF RecordOK
    <3> QED
      BY <3>1, <3>2
  <2> QED
    BY <2>1, <2>2 DEF RecordInv
<1>16. ASSUME (\E svc \in Services : Report(svc)) \/ Refresh \/ New \/ UNCHANGED settingsVars
       PROVE  UNCHANGED <<req, record, effect>>
  BY <1>16 DEF Report, Refresh, New, settingsVars
<1> QED
  BY <1>1, <1>2, <1>3, <1>4, <1>5, <1>6, <1>7, <1>8, <1>9, <1>10, <1>11, <1>12, <1>13, <1>14, <1>15, <1>16
     DEF SettingsNext

\* What was shown stays shown.
LEMMA ShownStays == [SettingsNext]_settingsVars => \A k : Shown(k) \subseteq Shown(k)'
<1> SUFFICES ASSUME [SettingsNext]_settingsVars, NEW k PROVE Shown(k) \subseteq Shown(k)'
  OBVIOUS
<1> USE DEF work
<1>1. ASSUME previews \subseteq previews' PROVE Shown(k) \subseteq Shown(k)'
  BY <1>1 DEF Shown
<1>2. ASSUME NEW r \in Requests, NEW p \in Operators, settingsHandler(r, p) \/ saveWizard(r, p) \/ saveRetention(r, p)
      PROVE  previews \subseteq previews'
  BY <1>2 DEF settingsHandler, saveSetting, blocklistPreviewFor, saveWizard, RecordSetting, saveRetention
<1>3. ASSUME NEW r \in Requests,
             \/ MigrateSettings(r) \/ settingRowExists(r) \/ authorizeSetting(r) \/ AwaitSlot(r) \/ Verify(r)
             \/ BeginOperation(r) \/ CheckAccess(r) \/ Write(r) \/ recordSettingChange(r) \/ Succeed(r)
      PROVE  previews' = previews
  BY <1>3 DEF MigrateSettings, settingRowExists, authorizeSetting, AwaitSlot, Verify, BeginOperation, CheckAccess,
              Write, recordSettingChange, Succeed, Ends
<1>4. ASSUME (\E svc \in Services : Report(svc)) \/ Refresh \/ New \/ SettingsTick \/ Restart
             \/ UNCHANGED settingsVars
      PROVE  previews' = previews
  BY <1>4 DEF Report, Refresh, New, SettingsTick, Restart, settingsVars
<1> QED
  BY <1>1, <1>2, <1>3, <1>4 DEF SettingsNext

\* A step draws no page that keeps a rule to itself.
LEMMA PagesGoOnTelling == PagesTell /\ [SettingsNext]_settingsVars => PagesTell'
<1> SUFFICES ASSUME PagesTell, [SettingsNext]_settingsVars PROVE PagesTell'
  OBVIOUS
<1> USE DEF work
<1>1. ASSUME previews' = previews PROVE PagesTell'
  BY <1>1 DEF PagesTell, Told
<1>2. ASSUME NEW r \in Requests, NEW p \in Operators, settingsHandler(r, p) PROVE PagesTell'
  <2>1. PICK s \in Sites, k \in Keys :
          \E v \in Inputs[k] \union {NoRow}, onay \in Confirms, current \in Currents(k, s) :
            saveSetting(r, p, s, k, v, onay, current) \/ blocklistPreviewFor(r, p, s, k, v, onay, current)
    BY <1>2 DEF settingsHandler
  <2>2. PICK v \in Inputs[k] \union {NoRow}, onay \in Confirms, current \in Currents(k, s) :
          saveSetting(r, p, s, k, v, onay, current) \/ blocklistPreviewFor(r, p, s, k, v, onay, current)
    BY <2>1
  <2>3. CASE saveSetting(r, p, s, k, v, onay, current)
    BY <1>1, <2>3 DEF saveSetting
  <2>4. CASE blocklistPreviewFor(r, p, s, k, v, onay, current)
    <3>1. PICK page \in Pages(addedRules(current, v)) : previews' = previews \union {page}
      BY <2>4 DEF blocklistPreviewFor
    <3>2. Told(page) = page.rules
      BY <3>1, PagesTellAll
    <3> QED
      BY <3>1, <3>2 DEF PagesTell, Told
  <2> QED
    BY <2>2, <2>3, <2>4
<1>3. ASSUME NEW r \in Requests, NEW p \in Operators, saveWizard(r, p) \/ saveRetention(r, p)
      PROVE  previews' = previews
  BY <1>3 DEF saveWizard, RecordSetting, saveRetention
<1>4. ASSUME NEW r \in Requests,
             \/ MigrateSettings(r) \/ settingRowExists(r) \/ authorizeSetting(r) \/ AwaitSlot(r) \/ Verify(r)
             \/ BeginOperation(r) \/ CheckAccess(r) \/ Write(r) \/ recordSettingChange(r) \/ Succeed(r)
      PROVE  previews' = previews
  BY <1>4 DEF MigrateSettings, settingRowExists, authorizeSetting, AwaitSlot, Verify, BeginOperation, CheckAccess,
              Write, recordSettingChange, Succeed, Ends
<1>5. ASSUME (\E svc \in Services : Report(svc)) \/ Refresh \/ New \/ SettingsTick \/ Restart
             \/ UNCHANGED settingsVars
      PROVE  previews' = previews
  BY <1>5 DEF Report, Refresh, New, SettingsTick, Restart, settingsVars
<1> QED
  BY <1>1, <1>2, <1>3, <1>4, <1>5 DEF SettingsNext

\* A list that its sender has confirmed holds nothing that was not shown.
LEMMA ConfirmedWasShown ==
  ASSUME RulesWereShown, PagesTell, NEW k \in BlockKeys \intersect Keys, NEW v, NEW onay \in Confirms,
         NEW current \in {GetSetting(k, Global), {}}, confirmed(current, v, onay)
  PROVE  v \subseteq Shown(k)
<1>1. current \subseteq Shown(k)
  <2>1. Default(k) = {}
    BY DEF Default, BlockKeys
  <2>2. GetSetting(k, Global) \subseteq Shown(k)
    BY <2>1 DEF GetSetting, RulesWereShown, Shown
  <2> QED
    BY <2>2
<1>2. v \ current \subseteq Shown(k)
  <2>1. CASE v \ current = {}
    BY <2>1
  <2>2. CASE onay = v \ current /\ v \ current # {}
    <3>1. PICK page \in previews : page.rules = v \ current
      BY <2>2 DEF Confirms
    <3>2. Told(page) = v \ current
      BY <3>1 DEF PagesTell
    <3> QED
      BY <3>1, <3>2 DEF Shown
  <2> QED
    BY <2>1, <2>2 DEF confirmed, addedRules
<1> QED
  BY <1>1, <1>2

\* A request that asks for less, or for no list.
LEMMA OneListMoves ==
  ASSUME SettingsTypes, ShownInv, [SettingsNext]_settingsVars, NEW r \in Requests, NEW q,
         req' = [req EXCEPT ![r] = q], ListOK(q), store' = store
  PROVE  ShownInv'
<1>1. \A k : Shown(k) \subseteq Shown(k)'
  BY ShownStays
<1>2. RulesWereShown'
  BY <1>1 DEF ShownInv, RulesWereShown, Shown
<1>3. ASSUME NEW x \in Requests PROVE ListOK(req[x])' /\ req'[x] \in {q, req[x]}
  <2>1. req'[x] = IF x = r THEN q ELSE req[x]
    BY DEF SettingsTypes
  <2>2. ListOK(req[x])
    BY DEF ShownInv
  <2> QED
    BY <1>1, <2>1, <2>2 DEF ListOK
<1> QED
  BY <1>2, <1>3, PagesGoOnTelling DEF ShownInv

\* The request of nobody asks for no list.
LEMMA RestingLists == ListOK(Quiet) /\ ListOK(Answered)
<1>1. "none" \notin BlockKeys
  BY DEF BlockKeys
<1>2. Quiet.key = "none" /\ Answered.key = "none"
  BY DEF Quiet, Answered, Form
<1> QED
  BY <1>1, <1>2 DEF ListOK

\* A request that ends asks for no list.
LEMMA ListAnswered ==
  ASSUME SettingsTypes, ShownInv, [SettingsNext]_settingsVars, NEW r \in Requests, Done(r), store' = store
  PROVE  ShownInv'
BY RestingLists, OneListMoves DEF Done

\* A request that goes on asks for the list it asked for.
LEMMA ListGoesOn ==
  ASSUME SettingsTypes, ShownInv, [SettingsNext]_settingsVars, NEW r \in Requests,
         NEW to \in {"check", "write", "audit", "finish"}, Goes(r, to), store' = store,
         to \in {"check", "write"} => req[r].at \in {"begin", "check", "write"}
  PROVE  ShownInv'
<1> DEFINE q == [req[r] EXCEPT !.at = to]
<1>1. req' = [req EXCEPT ![r] = q]
  BY DEF Goes
<1>2. /\ q.at = to /\ q.kind = req[r].kind /\ q.key = req[r].key /\ q.val = req[r].val
      /\ q.by = req[r].by /\ q.site = req[r].site
  BY DEF SettingsTypes, RequestShape
<1> HIDE DEF q
<1>3. ListOK(req[r])
  BY DEF ShownInv
<1>4. ListOK(q)
  BY <1>2, <1>3 DEF ListOK
<1> QED
  BY <1>1, <1>4, OneListMoves

\* A page's request for a list has been shown, or nobody would accept it.
LEMMA ListAsked ==
  ASSUME RulesWereShown, PagesTell, NEW p, NEW s, NEW k \in Keys, NEW v, NEW onay \in Confirms, NEW at, NEW todo,
         NEW current \in Currents(k, s), ~PreviewStops(p, s, k, v, onay, current)
  PROVE  ListOK(Form("page", p, k, s, v, at, todo))
<1> DEFINE q == Form("page", p, k, s, v, at, todo)
<1>1. q.kind = "page" /\ q.key = k /\ q.val = v /\ q.by = p /\ q.site = s
  BY DEF Form
<1> HIDE DEF q
<1>2. ASSUME k \in BlockKeys, v # NoRow, v # Bad, AccessTo(p, s, k) = "writable" PROVE v \subseteq Shown(k)
  <2>1. ScopeOf(k, s) = Global
    BY <1>2, KeysAreRegistered DEF ScopeOf
  <2>2. confirmed(current, v, onay)
    BY <1>2 DEF PreviewStops, Validate
  <2>3. current \in {GetSetting(k, Global), {}}
    BY <1>2, <2>1 DEF Currents
  <2> QED
    BY <1>2, <2>2, <2>3, ConfirmedWasShown
<1>3. ListOK(q)
  BY <1>1, <1>2 DEF ListOK
<1> QED
  BY <1>3 DEF q

\* A list that is written holds nothing that was not shown.
LEMMA ListWritten ==
  ASSUME SettingsTypes, ShownInv, [SettingsNext]_settingsVars, NEW r \in Requests, Goes(r, "audit"),
         req[r].at = "write", Validate(req[r].key, req[r].val),
         store' = [store EXCEPT ![<<req[r].key, ScopeOf(req[r].key, req[r].site)>>] = req[r].val]
  PROVE  ShownInv'
<1> DEFINE q == [req[r] EXCEPT !.at = "audit"]
<1>0. req[r] \in RequestShape /\ RequestOK(req[r]) /\ ListOK(req[r])
  BY DEF SettingsTypes, ShownInv
<1>1. \A k : Shown(k) \subseteq Shown(k)'
  BY ShownStays
<1>2. ASSUME NEW k \in BlockKeys \intersect Keys, store'[<<k, Global>>] # NoRow
      PROVE  store'[<<k, Global>>] \subseteq Shown(k)'
  <2>1. <<k, Global>> \in Rows
    BY KeysAreRegistered DEF Rows
  <2>2. CASE store'[<<k, Global>>] = store[<<k, Global>>]
    <3>1. store[<<k, Global>>] \subseteq Shown(k)
      BY <1>2, <2>2 DEF ShownInv, RulesWereShown, Shown
    <3> QED
      BY <1>1, <2>2, <3>1
  <2>3. CASE store'[<<k, Global>>] # store[<<k, Global>>]
    <3>1. k = req[r].key /\ store'[<<k, Global>>] = req[r].val
      BY <2>1, <2>3 DEF SettingsTypes
    <3>2. req[r].val # NoRow /\ req[r].val # Bad /\ k \in BlockKeys
      BY <1>2, <3>1 DEF Validate
    <3>3. req[r].kind # "migrate" => AccessTo(req[r].by, req[r].site, k) = "writable"
      BY <1>0, <3>1, KeysAreRegistered DEF RequestOK, Editable, AccessTo
    <3>4. req[r].val \subseteq Shown(k)
      BY <1>0, <3>1, <3>2, <3>3 DEF ListOK
    <3> QED
      BY <1>1, <3>1, <3>4
  <2> QED
    BY <2>2, <2>3
<1>3. RulesWereShown'
  BY <1>2 DEF RulesWereShown, Shown
<1>4. ASSUME NEW x \in Requests PROVE ListOK(req[x])'
  <2>1. CASE x = r
    <3>1. req'[x] = q
      BY <2>1 DEF SettingsTypes, Goes
    <3>2. q.at = "audit" /\ q.kind = req[r].kind /\ q.key = req[r].key /\ q.val = req[r].val
      BY <1>0 DEF RequestShape
    <3> HIDE DEF q
    <3> QED
      BY <1>0, <1>1, <3>1, <3>2 DEF ListOK
  <2>2. CASE x # r
    <3>1. req'[x] = req[x] /\ ListOK(req[x])
      BY <2>2 DEF SettingsTypes, Goes, ShownInv
    <3> QED
      BY <1>1, <3>1 DEF ListOK
  <2> QED
    BY <2>1, <2>2
<1> QED
  BY <1>3, <1>4, PagesGoOnTelling DEF ShownInv

\* Every step keeps the lists shown.
LEMMA ListsKept == SettingsTypes /\ Waiting /\ ShownInv /\ [SettingsNext]_settingsVars => ShownInv'
<1> SUFFICES ASSUME SettingsTypes, Waiting, ShownInv, [SettingsNext]_settingsVars PROVE ShownInv'
  OBVIOUS
<1> USE DEF work
<1>0. /\ RulesWereShown /\ PagesTell /\ \A k : Shown(k) \subseteq Shown(k)'
      /\ \A r \in Requests : req[r] \in RequestShape /\ RequestOK(req[r]) /\ ListOK(req[r])
  BY ShownStays DEF SettingsTypes, ShownInv
<1>1. ASSUME store' = store, \A r \in Requests : ListOK(req'[r]) PROVE ShownInv'
  <2>1. RulesWereShown'
    BY <1>0, <1>1 DEF RulesWereShown, Shown
  <2>2. ASSUME NEW r \in Requests PROVE ListOK(req[r])'
    BY <1>0, <1>1 DEF ListOK
  <2> QED
    BY <2>1, <2>2, <1>0, PagesGoOnTelling DEF ShownInv
<1>2. ASSUME UNCHANGED <<store, req>> PROVE ShownInv'
  BY <1>0, <1>1, <1>2
<1>3. ASSUME NEW r \in Requests, NEW p \in Operators, settingsHandler(r, p) PROVE ShownInv'
  <2>1. PICK s \in Sites, k \in Keys :
          \E v \in Inputs[k] \union {NoRow}, onay \in Confirms, current \in Currents(k, s) :
            saveSetting(r, p, s, k, v, onay, current) \/ blocklistPreviewFor(r, p, s, k, v, onay, current)
    BY <1>3 DEF settingsHandler
  <2>2. PICK v \in Inputs[k] \union {NoRow}, onay \in Confirms, current \in Currents(k, s) :
          saveSetting(r, p, s, k, v, onay, current) \/ blocklistPreviewFor(r, p, s, k, v, onay, current)
    BY <2>1
  <2>3. CASE blocklistPreviewFor(r, p, s, k, v, onay, current)
    <3>1. UNCHANGED <<store, req>>
      BY <2>3 DEF blocklistPreviewFor
    <3> QED
      BY <1>2, <3>1
  <2>4. CASE saveSetting(r, p, s, k, v, onay, current)
    <3> DEFINE q == Form("page", p, k, s, v, IF k \in GuardedKeys THEN "gate" ELSE "begin", {})
    <3>1. ListOK(q)
      BY <1>0, <2>4, ListAsked DEF saveSetting
    <3>2. req' = [req EXCEPT ![r] = q] /\ store' = store
      BY <2>4 DEF saveSetting, Post
    <3> HIDE DEF q
    <3> QED
      BY <3>1, <3>2, OneListMoves
  <2> QED
    BY <2>2, <2>3, <2>4
<1>4. ASSUME NEW r \in Requests, NEW p \in Operators, saveWizard(r, p) PROVE ShownInv'
  <2>1. PICK k \in Keys : \E v \in Inputs[k] : RecordSetting(r, p, WizardRows(k, p), v)
    BY <1>4 DEF saveWizard
  <2>2. PICK v \in Inputs[k] : RecordSetting(r, p, WizardRows(k, p), v)
    BY <2>1
  <2>3. PICK row \in WizardRows(k, p) :
          Post(r, Form("wizard", p, row[1], row[2], v, "check", WizardRows(k, p) \ {row}))
    BY <2>2 DEF RecordSetting
  <2> DEFINE q == Form("wizard", p, row[1], row[2], v, "check", WizardRows(k, p) \ {row})
  <2>4. q.key \notin BlockKeys
    BY WizardRowsAre, KeysAreRegistered DEF Form
  <2>5. req' = [req EXCEPT ![r] = q] /\ store' = store
    BY <2>2, <2>3 DEF Post, RecordSetting
  <2> HIDE DEF q
  <2>6. ListOK(q)
    BY <2>4 DEF ListOK
  <2> QED
    BY <2>5, <2>6, OneListMoves
<1>5. ASSUME NEW r \in Requests, NEW p \in Operators, saveRetention(r, p) PROVE ShownInv'
  <2>1. PICK v \in Inputs["logs.retention_days"] :
          Post(r, Form("retention", p, "logs.retention_days", Global, v, "gate", {}))
    BY <1>5 DEF saveRetention
  <2> DEFINE q == Form("retention", p, "logs.retention_days", Global, v, "gate", {})
  <2>2. q.key \notin BlockKeys
    BY KeysAreRegistered DEF Form
  <2>3. req' = [req EXCEPT ![r] = q] /\ store' = store
    BY <1>5, <2>1 DEF Post, saveRetention
  <2> HIDE DEF q
  <2>4. ListOK(q)
    BY <2>2 DEF ListOK
  <2> QED
    BY <2>3, <2>4, OneListMoves
<1>6. ASSUME NEW r \in Requests, MigrateSettings(r) PROVE ShownInv'
  <2>1. PICK k \in DOMAIN File : Post(r, Form("migrate", NoOne, k, Global, File[k], "check", {}))
    BY <1>6 DEF MigrateSettings
  <2> DEFINE q == Form("migrate", NoOne, k, Global, File[k], "check", {})
  <2>2. q.kind = "migrate" /\ q.key = k /\ q.val = File[k]
    BY DEF Form
  <2>3. req' = [req EXCEPT ![r] = q] /\ store' = store
    BY <1>6, <2>1 DEF Post, MigrateSettings
  <2> HIDE DEF q
  <2>4. ListOK(q)
    <3>1. File[k] \subseteq Shown(k)
      BY <2>1 DEF Shown
    <3> QED
      BY <2>2, <3>1 DEF ListOK
  <2> QED
    BY <2>3, <2>4, OneListMoves
<1>7. ASSUME NEW r \in Requests, settingRowExists(r) \/ BeginOperation(r) PROVE ShownInv'
  <2>1. store' = store /\ req[r].at \in {"begin", "check"} /\ (Goes(r, "write") \/ Goes(r, "check") \/ Done(r))
    BY <1>7 DEF settingRowExists, BeginOperation
  <2> QED
    BY <2>1, ListGoesOn, ListAnswered
<1>8. ASSUME NEW r \in Requests, authorizeSetting(r) \/ AwaitSlot(r) PROVE ShownInv'
  <2>1. store' = store /\ (UNCHANGED req \/ Done(r))
    BY <1>8 DEF authorizeSetting, AwaitSlot
  <2> QED
    BY <1>2, <2>1, ListAnswered
<1>9. ASSUME NEW r \in Requests, Verify(r) PROVE ShownInv'
  <2>1. store' = store
    BY <1>9 DEF Verify
  <2>2. CASE Done(r)
    BY <2>1, <2>2, ListAnswered
  <2>3. CASE ~Done(r)
    <3> DEFINE q == [req[r] EXCEPT !.auth = GrantLifetime, !.at = IF req[r].kind = "page" THEN "begin" ELSE "check"]
    <3>1. req' = [req EXCEPT ![r] = q] /\ r \in slot
      BY <1>9, <2>3 DEF Verify, RightPassword, clearFailures
    <3>2. q.key = req[r].key
      BY <1>0 DEF RequestShape
    <3> HIDE DEF q
    <3>3. req[r].at = "gate"
      BY <3>1 DEF Waiting
    <3>4. q.key \notin BlockKeys
      BY <1>0, <3>2, <3>3, KeysAreRegistered DEF RequestOK
    <3>5. ListOK(q)
      BY <3>4 DEF ListOK
    <3> QED
      BY <2>1, <3>1, <3>5, OneListMoves
  <2> QED
    BY <2>2, <2>3
<1>10. ASSUME NEW r \in Requests, CheckAccess(r) PROVE ShownInv'
  <2>1. store' = store /\ req[r].at = "check" /\ (Goes(r, "write") \/ Done(r))
    BY <1>10 DEF CheckAccess, Ends, Finish
  <2> QED
    BY <2>1, ListGoesOn, ListAnswered
<1>11. ASSUME NEW r \in Requests, Write(r) PROVE ShownInv'
  <2>1. CASE store' = store /\ Done(r)
    BY <2>1, ListAnswered
  <2>2. CASE ~(store' = store /\ Done(r))
    BY <1>11, <2>2, ListWritten DEF Write, Ends, Finish
  <2> QED
    BY <2>1, <2>2
<1>12. ASSUME NEW r \in Requests, recordSettingChange(r) PROVE ShownInv'
  <2>1. store' = store /\ (NextOfForm(r) \/ Done(r))
    BY <1>12 DEF recordSettingChange, Ends, Finish
  <2>2. CASE Done(r)
    BY <2>1, <2>2, ListAnswered
  <2>3. CASE NextOfForm(r)
    <3>1. CASE Goes(r, "finish")
      BY <2>1, <3>1, ListGoesOn
    <3>2. ASSUME NEW row \in req[r].todo,
                 req' = [req EXCEPT ![r] = [req[r] EXCEPT !.key = row[1], !.site = row[2],
                                                          !.todo = @ \ {row}, !.at = "check"]]
          PROVE  ShownInv'
      <4> DEFINE q == [req[r] EXCEPT !.key = row[1], !.site = row[2], !.todo = @ \ {row}, !.at = "check"]
      <4>1. q.key = row[1]
        BY <1>0 DEF RequestShape
      <4>2. req' = [req EXCEPT ![r] = q]
        BY <3>2
      <4> HIDE DEF q
      <4>3. q.key \notin BlockKeys
        BY <1>0, <4>1, KeysAreRegistered DEF RequestOK
      <4>4. ListOK(q)
        BY <4>3 DEF ListOK
      <4> QED
        BY <2>1, <4>2, <4>4, OneListMoves
    <3> QED
      BY <2>3, <3>1, <3>2 DEF NextOfForm
  <2> QED
    BY <2>1, <2>2, <2>3
<1>13. ASSUME NEW r \in Requests, Succeed(r) PROVE ShownInv'
  BY <1>13, ListAnswered DEF Succeed, Ends, Finish
<1>14. CASE SettingsTick
  <2>1. req' = [r \in Requests |-> [req[r] EXCEPT !.auth = IF @ > 0 THEN @ - 1 ELSE 0]] /\ store' = store
    BY <1>14 DEF SettingsTick
  <2>2. ASSUME NEW r \in Requests PROVE ListOK(req'[r])
    <3>1. req'[r] = [req[r] EXCEPT !.auth = IF @ > 0 THEN @ - 1 ELSE 0]
      BY <2>1
    <3>2. /\ req'[r].at = req[r].at /\ req'[r].kind = req[r].kind /\ req'[r].key = req[r].key
          /\ req'[r].val = req[r].val /\ req'[r].by = req[r].by /\ req'[r].site = req[r].site
      BY <1>0, <3>1 DEF RequestShape
    <3> QED
      BY <1>0, <3>2 DEF ListOK
  <2> QED
    BY <1>1, <2>1, <2>2
<1>15. CASE Restart
  <2>1. req' = [r \in Requests |-> IF req[r].at = "idle" THEN Quiet ELSE Answered] /\ store' = store
    BY <1>15 DEF Restart
  <2> QED
    BY <1>1, <2>1, RestingLists
<1>16. ASSUME (\E svc \in Services : Report(svc)) \/ Refresh \/ New \/ UNCHANGED settingsVars
       PROVE  UNCHANGED <<store, req>>
  BY <1>16 DEF Report, Refresh, New, settingsVars
<1> QED
  BY <1>2, <1>3, <1>4, <1>5, <1>6, <1>7, <1>8, <1>9, <1>10, <1>11, <1>12, <1>13, <1>14, <1>15, <1>16
     DEF SettingsNext

\* No rule is on a blocklist whose effect nobody was shown, save the ones the
\* config file brought, and the record of a change says what happened
\* (web/blocklistpreview.go; operations.go, Finish; settings.go), for every
\* set of accounts, keys and values.
THEOREM ChangesAreAlwaysHonest == SettingsSpec => []ChangesAreHonest
<1> DEFINE I == SettingsTypes /\ Waiting /\ RecordInv /\ ShownInv
<1>1. SettingsInit => I
  <2> SUFFICES ASSUME SettingsInit PROVE I
    OBVIOUS
  <2>1. SettingsTypes
    BY SettingsStart
  <2>2. Waiting
    BY DEF SettingsInit, GateInit, Waiting
  <2>3. \A r \in Requests : req[r] = Quiet /\ record[r] = "none" /\ effect[r] = "nothing"
    BY DEF SettingsInit
  <2>4. RecordOK(Quiet, "none", "nothing")
    BY RestingRequests DEF RecordOK
  <2>5. RecordInv
    BY <2>3, <2>4 DEF SettingsInit, RecordInv
  <2>6. \A k \in BlockKeys \intersect Keys : <<k, Global>> \in Rows /\ store[<<k, Global>>] = NoRow
    BY KeysAreRegistered DEF SettingsInit, Rows
  <2>7. PagesTell
    BY DEF SettingsInit, PagesTell
  <2>8. RulesWereShown
    BY <2>6 DEF RulesWereShown
  <2>9. ShownInv
    BY <2>3, <2>7, <2>8, RestingLists DEF ShownInv
  <2> QED
    BY <2>1, <2>2, <2>5, <2>9
<1>2. I /\ [SettingsNext]_settingsVars => I'
  BY SettingsTypesKept, WaitingKept, RecordsKept, ListsKept
<1>3. I => ChangesAreHonest
  BY DEF RecordInv, RecordOK, ShownInv, ChangesAreHonest, OutcomeIsTrue
<1> HIDE DEF I
<1> QED
  BY <1>1, <1>2, <1>3, PTL DEF SettingsSpec

-----------------------------------------------------------------------------
(* The four side by side.                                                  *)

\* A step of one of the four is a step of the login or leaves it alone, and
\* likewise of the settings.
LEMMA SidesStandStill ==
  [Next]_<<part, membersVars, loginVars, devVars, settingsVars>> =>
    [LoginNext]_loginVars /\ [SettingsNext]_settingsVars
BY DEF Next

\* attemptLimiter and the developer gate: however many forms are sent at once,
\* at the login and at the gate, the wrong passwords and codes compared in a
\* window are bounded.
THEOREM PasswordsAreKept == Spec => []PasswordsAreGuarded
<1>1. Init => BudgetKept /\ GateInv
  BY BudgetStarts, GateStarts DEF Init
<1>2. /\ BudgetKept /\ GateInv
      /\ [Next]_<<part, membersVars, loginVars, devVars, settingsVars>>
      => BudgetKept' /\ GateInv'
  BY SidesStandStill, BudgetKeeps, GateKeeps
<1>3. BudgetKept /\ GateInv => PasswordsAreGuarded
  BY BudgetIsABound, GateBounds DEF BudgetKept, PasswordsAreGuarded
<1> QED
  BY <1>1, <1>2, <1>3, PTL DEF Spec
=============================================================================
