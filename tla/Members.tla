------------------------------ MODULE Members -------------------------------
(***************************************************************************)
(* Who belongs to a site: memberships (internal/panel/members.go),         *)
(* invitations (memberinvite.go) and owner claims (ownerclaim.go), with    *)
(* the pages that write them (web/members.go, web/join.go,                 *)
(* web/welcome.go, web/setup.go).                                          *)
(*                                                                         *)
(* A post to the members page is a goroutine with a transaction of its     *)
(* own, at PostgreSQL's default isolation: each statement reads what is    *)
(* committed when it starts, and a SELECT ... FOR UPDATE that had to wait  *)
(* for a row reads that row again but finds no row that came later.  So    *)
(* lockMembership is one step that chooses the rows and one step for each  *)
(* row it locks.  One site; a person stands for an address and for the     *)
(* account with that address.  Audit entries and mail are left out.        *)
(***************************************************************************)
EXTENDS Naturals, Sequences, FiniteSets

CONSTANTS
  People,        \* the addresses
  Operator,      \* a developer session: superadmin, with no account
  Nobody,
  Posts,      \* posts to the members page, each made once
  ScanOrder,     \* People in the order a scan meets their rows
  StartAccounts, \* who has an account at the start
  StartRole,     \* and what they hold
  Offers,        \* what the form can offer: a role, and whether it ends
  InviteIds,
  ClaimIds,
  MaxOpen        \* MaxOpenInvitesPerSite

Roles == {"owner", "admin", "viewer"}

ASSUME MembersAssumption ==
  /\ Operator \notin People /\ Nobody \notin People \union Posts \union {Operator}
  /\ ScanOrder \in Seq(People) /\ \A p \in People : \E i \in DOMAIN ScanOrder : ScanOrder[i] = p
  /\ StartAccounts \subseteq People /\ StartRole \in [StartAccounts -> Roles \union {"none"}]
  /\ \E p \in StartAccounts : StartRole[p] = "owner"
  /\ \A o \in Offers : o.role \in Roles /\ (o.temp => o.role # "owner")
  /\ InviteIds \subseteq Nat /\ ClaimIds \subseteq Nat /\ MaxOpen \in Nat

VARIABLES
  accounts, \* panel_users
  role,     \* panel_site_members.role; "none" where there is no row
  ends,     \* its expires_at: "never", "later" or "past"
  rowLock,  \* which request holds the row
  post,      \* the requests in hand
  invites,  \* panel_member_invites
  claims,   \* panel_owner_claims
  join      \* the transaction that is redeeming an invitation

membersVars == <<accounts, role, ends, rowLock, post, invites, claims, join>>
rows == <<role, ends>>

Unmade == [op |-> "none", at |-> "idle", actor |-> Nobody, target |-> Nobody,
           role |-> "none", temp |-> FALSE, left |-> {}, owners |-> {}, current |-> "none",
           held |-> "none"] \* history: what the actor held when the post was cleared
Finished == [Unmade EXCEPT !.at = "done"]
NoJoin == [at |-> "idle", could |-> FALSE] \* could is history
NoInvite == [st |-> "none", to |-> Nobody, role |-> "none", temp |-> FALSE, by |-> Nobody]

MembersInit ==
  /\ accounts = StartAccounts
  /\ role = [p \in People |-> IF p \in StartAccounts THEN StartRole[p] ELSE "none"]
  /\ ends = [p \in People |-> "never"]
  /\ rowLock = [p \in People |-> Nobody]
  /\ post = [q \in Posts |-> Unmade]
  /\ invites = [i \in InviteIds |-> NoInvite]
  /\ claims = [c \in ClaimIds |-> [st |-> "none", to |-> Nobody]]
  /\ join = [i \in InviteIds |-> NoJoin]

-----------------------------------------------------------------------------
(* What a role allows.                                                     *)

owners == {p \in People : role[p] = "owner"}

\* A row whose end date has passed grants nothing.
liveMembership(p) == role[p] # "none" /\ ends[p] # "past"
liveAccess(p) == IF p \in accounts /\ liveMembership(p) THEN role[p] ELSE "none"

\* A developer session is superadmin without a row.
AccessFor(a) == IF a = Operator THEN "superadmin" ELSE liveAccess(a)

\* roleCapabilities, for the one capability the members page asks about.
roleCapabilities == {"owner", "admin"}
Managing(access) == access \in roleCapabilities \union {"superadmin"}
Owning(access) == access \in {"owner", "superadmin"}
CanManageMembers(a) == a # Nobody /\ Managing(AccessFor(a))
Owns(a) == a # Nobody /\ Owning(AccessFor(a))
CanAssign(a, r) == CanManageMembers(a) /\ (r = "owner" => Owns(a))
CanManageMember(a, current) == CanManageMembers(a) /\ (current = "owner" => Owns(a))

-----------------------------------------------------------------------------
(* The forms.  The handler asks once, with what it read when the request   *)
(* came in.                                                                *)

Submit(q, a, op, t, o) ==
  /\ CanManageMembers(a)
  /\ post' = [post EXCEPT ![q] = [Unmade EXCEPT !.op = op, !.at = "asked", !.actor = a,
                                              !.target = t, !.role = o.role, !.temp = o.temp]]
  /\ UNCHANGED <<accounts, rows, rowLock, invites, claims, join>>

\* An address with an account is added; one without is invited.
addMember(q, a) ==
  \E t \in People, o \in Offers :
    CanAssign(a, o.role) /\ Submit(q, a, IF t \in accounts THEN "add" ELSE "invite", t, o)

changeRole(q, a) ==
  \E t \in People, o \in Offers :
    ~o.temp /\ CanAssign(a, o.role) /\ Submit(q, a, "role", t, o)

removeMember(q, a) ==
  \E t \in People : Submit(q, a, "remove", t, [role |-> "none", temp |-> FALSE])

-----------------------------------------------------------------------------
(* The transaction.                                                        *)

\* The rows one FOR UPDATE asks for.
Wanted(t) == {p \in People : role[p] = "owner" \/ (p = t /\ role[p] # "none")}

Held(q) == {p \in People : rowLock[p] = q}
Unlock(q) == rowLock' = [p \in People |-> IF rowLock[p] = q THEN Nobody ELSE rowLock[p]]

\* COMMIT or ROLLBACK gives the rows back.
End(q) == post' = [post EXCEPT ![q] = Finished] /\ Unlock(q)

Next1(S) == ScanOrder[CHOOSE i \in DOMAIN ScanOrder :
              ScanOrder[i] \in S /\ \A j \in 1..(i - 1) : ScanOrder[j] \notin S]

lockMembership(q) ==
  /\ post[q].at = "asked" /\ post[q].op # "invite"
  /\ post' = [post EXCEPT ![q].at = "locking", ![q].left = Wanted(post[q].target)]
  /\ UNCHANGED <<accounts, rows, rowLock, invites, claims, join>>

\* The next row, once nobody else holds it.  A row that has gone is passed
\* over; one that no longer matches is locked and not read.
LockRow(q) ==
  /\ post[q].at = "locking" /\ post[q].left # {}
  /\ LET p == Next1(post[q].left) IN
       /\ rowLock[p] = Nobody
       /\ rowLock' = [rowLock EXCEPT ![p] = IF role[p] = "none" THEN Nobody ELSE q]
       /\ post' = [post EXCEPT ![q].left = @ \ {p},
                    ![q].owners = IF role[p] = "owner" THEN @ \union {p} ELSE @,
                    ![q].current = IF p = post[q].target THEN role[p] ELSE @]
  /\ UNCHANGED <<accounts, rows, invites, claims, join>>

\* (mutant) Somebody else may always take over.
lastOwnerNever(q) == FALSE

\* The target is the only owner the locked read found.
lastOwnerIs(q) == post[q].owners = {post[q].target}

\* (mutant) What is given is asked about, what is taken away is not.
mayGrantOnly(q) ==
  \/ post[q].actor = Operator
  \/ /\ CanManageMembers(post[q].actor)
     /\ post[q].op # "remove" => CanAssign(post[q].actor, post[q].role)

\* The actor as they stand now, against the row as it was locked.
mayActOnMember(q) ==
  \/ post[q].actor = Operator
  \/ /\ CanManageMember(post[q].actor, post[q].current)
     /\ post[q].op # "remove" => CanAssign(post[q].actor, post[q].role)

Allowed(q) == mayActOnMember(q) /\ (post[q].role # "owner" => ~lastOwnerIs(q))

Authorize(q) ==
  /\ post[q].at = "locking" /\ post[q].left = {}
  /\ \/ Allowed(q) /\ post' = [post EXCEPT ![q].at = "cleared", ![q].held = AccessFor(post[q].actor)]
        /\ UNCHANGED rowLock
     \/ ~Allowed(q) /\ End(q)
  /\ UNCHANGED <<accounts, rows, invites, claims, join>>

\* Each write is a statement that reads afresh: it finds the target's row
\* whether or not lockMembership did, and waits for whoever holds it.
MayWrite(q) == post[q].at = "cleared" /\ rowLock[post[q].target] \in {Nobody, q}

AddMember(q) ==
  /\ MayWrite(q) /\ post[q].op = "add"
  /\ role' = [role EXCEPT ![post[q].target] = post[q].role]
  /\ ends' = [ends EXCEPT ![post[q].target] = IF post[q].temp THEN "later" ELSE "never"]
  /\ End(q)
  /\ UNCHANGED <<accounts, invites, claims, join>>

\* ErrNotFound, without a row, writes nothing.
SetMemberRole(q) ==
  /\ MayWrite(q) /\ post[q].op = "role"
  /\ \/ /\ role[post[q].target] # "none"
        /\ role' = [role EXCEPT ![post[q].target] = post[q].role]
        /\ ends' = [ends EXCEPT ![post[q].target] = IF post[q].role = "owner" THEN "never" ELSE @]
     \/ role[post[q].target] = "none" /\ UNCHANGED rows
  /\ End(q)
  /\ UNCHANGED <<accounts, invites, claims, join>>

RemoveMember(q) ==
  /\ MayWrite(q) /\ post[q].op = "remove"
  /\ role' = [role EXCEPT ![post[q].target] = "none"]
  /\ ends' = [ends EXCEPT ![post[q].target] = "never"]
  /\ End(q)
  /\ UNCHANGED <<accounts, invites, claims, join>>

\* The row a request is waiting for, and so the request it waits for.
Blocker(q) ==
  LET r == post[q]
      p == IF r.at = "locking" /\ r.left # {} THEN Next1(r.left)
           ELSE IF r.at = "cleared" /\ role[r.target] # "none" THEN r.target ELSE Nobody
  IN IF p = Nobody \/ rowLock[p] = q THEN Nobody ELSE rowLock[p]

\* inTx returns an error and rolls back: the connection or the request is
\* gone, or the request is the victim the database picks to break a circle.
Rollback(q) ==
  /\ post[q].at \in {"locking", "cleared"}
  /\ End(q)
  /\ UNCHANGED <<accounts, rows, invites, claims, join>>

Circle(S) == S # {} /\ \A q \in S : Blocker(q) \in S

DeadlockVictim(q) ==
  /\ \E S \in SUBSET Posts : q \in S /\ Circle(S)
  /\ Rollback(q)

\* An end date passes.
EndDate(p) ==
  /\ ends[p] = "later" /\ ends' = [ends EXCEPT ![p] = "past"]
  /\ UNCHANGED <<accounts, role, rowLock, post, invites, claims, join>>

-----------------------------------------------------------------------------
(* Invitations.                                                            *)

Standing(i) == invites[i].st \in {"open", "lapsed"}
OpenInvitesFor(S) == {i \in InviteIds : invites[i].st = "open" /\ invites[i].to \in S}

\* The count, and the invitations the replacing UPDATE will find.
CountInvites(q) ==
  /\ post[q].at = "asked" /\ post[q].op = "invite"
  /\ \/ /\ Cardinality(OpenInvitesFor(People \ {post[q].target})) < MaxOpen
        /\ post' = [post EXCEPT ![q].at = "minting",
                     ![q].left = {i \in InviteIds : Standing(i) /\ invites[i].to = post[q].target}]
     \/ /\ Cardinality(OpenInvitesFor(People \ {post[q].target})) >= MaxOpen
        /\ post' = [post EXCEPT ![q] = Finished]
  /\ UNCHANGED <<accounts, rows, rowLock, invites, claims, join>>

\* The link replaces those, once nobody is redeeming them, and is minted
\* whatever the actor has become.
CreateMemberInvite(q) ==
  /\ post[q].at = "minting" /\ \A j \in post[q].left : join[j].at = "idle"
  /\ \E i \in InviteIds :
       /\ invites[i].st = "none" /\ \A j \in InviteIds : j < i => invites[j].st # "none"
       /\ invites' = [j \in InviteIds |->
            IF j = i THEN [st |-> "open", to |-> post[q].target, role |-> post[q].role,
                           temp |-> post[q].temp,
                           by |-> IF post[q].actor = Operator THEN Nobody ELSE post[q].actor]
            ELSE IF j \in post[q].left /\ Standing(j) THEN [invites[j] EXCEPT !.st = "revoked"]
            ELSE invites[j]]
  /\ post' = [post EXCEPT ![q] = Finished]
  /\ UNCHANGED <<accounts, rows, rowLock, claims, join>>

\* No room is left in the bounds of the model.
MintUnmade(q) ==
  /\ post[q].at = "minting" /\ \A i \in InviteIds : invites[i].st # "none"
  /\ post' = [post EXCEPT ![q] = Finished]
  /\ UNCHANGED <<accounts, rows, rowLock, invites, claims, join>>

\* Used or withdrawn already, and there is nothing to withdraw.
RevokeMemberInvite(i) ==
  /\ Standing(i) /\ join[i].at = "idle"
  /\ invites' = [invites EXCEPT ![i].st = "revoked"]
  /\ UNCHANGED <<accounts, rows, rowLock, post, claims, join>>

withdrawInvite(i) ==
  \E a \in People \union {Operator} : CanManageMembers(a) /\ RevokeMemberInvite(i)

openInvitation(i) == invites[i].st = "open"

LapseInvite(i) ==
  /\ invites[i].st = "open" /\ invites' = [invites EXCEPT ![i].st = "lapsed"]
  /\ UNCHANGED <<accounts, rows, rowLock, post, claims, join>>

\* Whoever minted it, as they stand when it is used.
inviterMayStillGrant(i) == invites[i].by # Nobody /\ CanAssign(invites[i].by, invites[i].role)

\* Three statements of one transaction.  The first takes the invitation, so no
\* other transaction has it; the second asks about its author, and locks
\* nothing; a refusal, or any failure, gives the invitation back.
TakeInvite(i) ==
  /\ join[i].at = "idle" /\ openInvitation(i)
  /\ join' = [join EXCEPT ![i].at = "taken"]
  /\ UNCHANGED <<accounts, rows, rowLock, post, invites, claims>>

AskInviter(i) ==
  /\ join[i].at = "taken"
  /\ \/ /\ inviterMayStillGrant(i)
        /\ join' = [join EXCEPT ![i] = [at |-> "granting", could |-> CanAssign(invites[i].by, invites[i].role)]]
     \/ ~inviterMayStillGrant(i) /\ join' = [join EXCEPT ![i] = NoJoin]
  /\ UNCHANGED <<accounts, rows, rowLock, post, invites, claims>>

\* A membership that is already there is left alone.
RedeemMemberInvite(i) ==
  /\ join[i].at = "granting" /\ join' = [join EXCEPT ![i] = NoJoin]
  /\ LET p == invites[i].to IN
       /\ invites' = [invites EXCEPT ![i].st = "used"]
       /\ accounts' = accounts \union {p}
       /\ \/ /\ role[p] = "none"
             /\ role' = [role EXCEPT ![p] = invites[i].role]
             /\ ends' = [ends EXCEPT ![p] = IF invites[i].temp THEN "later" ELSE "never"]
          \/ role[p] # "none" /\ UNCHANGED rows
  /\ UNCHANGED <<rowLock, post, claims>>

\* The request is gone, or somebody else made the account meanwhile.
JoinFails(i) ==
  /\ join[i].at # "idle" /\ join' = [join EXCEPT ![i] = NoJoin]
  /\ UNCHANGED <<accounts, rows, rowLock, post, invites, claims>>

\* The page that asks for a password proves nothing: what it looked up is
\* asked again as the form comes back.
submitJoin(i) == TakeInvite(i) \/ AskInviter(i) \/ RedeemMemberInvite(i) \/ JoinFails(i)

-----------------------------------------------------------------------------
(* Owner claims.                                                           *)

CreateOwnerClaim(c, p) ==
  /\ claims[c].st = "none" /\ p \notin accounts
  /\ claims' = [claims EXCEPT ![c] = [st |-> "open", to |-> p]]
  /\ UNCHANGED <<accounts, rows, rowLock, post, invites, join>>

\* The last step of the wizard, for an address the installer types.
handOver(c) == \E p \in People : CreateOwnerClaim(c, p)

LapseClaim(c) ==
  /\ claims[c].st = "open" /\ claims' = [claims EXCEPT ![c].st = "lapsed"]
  /\ UNCHANGED <<accounts, rows, rowLock, post, invites, join>>

LookupOwnerClaim(c) == claims[c].st = "open"

\* The account's INSERT fails where there is one by now, and takes the
\* whole transaction with it.
RedeemOwnerClaim(c) ==
  /\ LookupOwnerClaim(c) /\ claims[c].to \notin accounts
  /\ claims' = [claims EXCEPT ![c].st = "used"]
  /\ accounts' = accounts \union {claims[c].to}
  /\ role' = [role EXCEPT ![claims[c].to] = "owner"]
  /\ UNCHANGED <<ends, rowLock, post, invites, join>>

submitClaim(c) == LookupOwnerClaim(c) /\ RedeemOwnerClaim(c)

-----------------------------------------------------------------------------
(* The whole.                                                              *)

Step(q) ==
  \/ lockMembership(q) \/ LockRow(q) \/ Authorize(q)
  \/ AddMember(q) \/ SetMemberRole(q) \/ RemoveMember(q)
  \/ DeadlockVictim(q)
  \/ CountInvites(q) \/ CreateMemberInvite(q) \/ MintUnmade(q)

saveMembers(q) ==
  /\ post[q].at = "idle"
  /\ \E a \in People \union {Operator} : addMember(q, a) \/ changeRole(q, a) \/ removeMember(q, a)

MembersNext ==
  \/ \E q \in Posts : saveMembers(q) \/ Step(q) \/ Rollback(q)
  \/ \E p \in People : EndDate(p)
  \/ \E i \in InviteIds : withdrawInvite(i) \/ LapseInvite(i) \/ submitJoin(i)
  \/ \E c \in ClaimIds : handOver(c) \/ LapseClaim(c) \/ submitClaim(c)

MembersSpec == MembersInit /\ [][MembersNext]_membersVars

-----------------------------------------------------------------------------
(* Properties.                                                             *)

\* Post q writes over p's membership, which was not there when the post read
\* the rows it locked.
Unlocked(q, p) == post[q].target = p /\ rowLock[p] # q

Wrote(q, p) == post[q].at = "cleared" /\ post'[q].at = "done" /\ post[q].target = p

\* A site keeps an owner (ErrLastOwner), whatever posts meet.  It is left
\* without one in a single way: the last owner is somebody who had no
\* membership when a post about them read its rows, became the owner since, and
\* is then written over by that post.
OwnerRemains ==
  [][owners # {} /\ owners' = {} =>
       \E q \in Posts, p \in owners : Wrote(q, p) /\ Unlocked(q, p)]_membersVars

\* Nobody below an owner unmakes one (CanManageMember), though the answer is
\* given before the write: the post that does it was cleared while its actor
\* owned the site, or found no membership of p's to ask about.
UnmadeByOwner(p) ==
  \E q \in Posts : Wrote(q, p) /\ (Owning(post[q].held) \/ Unlocked(q, p))

\* Nobody is given a role by somebody who could not give it when the
\* transaction that gives it asked: it comes from an owner claim, from an
\* invitation whose author could still give that role when the redemption asked
\* about them, or from a post cleared while its actor could.  A role taken away
\* from either between that question and the commit is not seen.
GivenToday(p) ==
  \/ \E c \in ClaimIds : claims[c].to = p /\ claims[c].st = "open" /\ claims'[c].st = "used"
  \/ \E i \in InviteIds : /\ invites[i].to = p /\ invites[i].role = role'[p]
                          /\ invites'[i].st = "used" /\ join[i].could
  \/ \E q \in Posts : /\ Wrote(q, p) /\ post[q].role = role'[p] /\ Managing(post[q].held)
                      /\ role'[p] = "owner" => Owning(post[q].held)

\* Roles come from those who may give them, and an owner's from owners, by
\* what holds in the transaction that changes them and not when somebody was
\* asked to change them.
RolesComeFromAbove ==
  [][\A p \in People :
       /\ role[p] = "owner" /\ role'[p] # "owner" => UnmadeByOwner(p)
       /\ role'[p] # role[p] /\ role'[p] # "none" => GivenToday(p)]_membersVars
=============================================================================
