---------------------------- MODULE AuthorityStore ----------------------------
(***************************************************************************)
(* internal/authority/store.go for one authority reference: its immutable  *)
(* generations and its head row.  The SQLite store has the same methods    *)
(* with the database's write lock in place of the row lock.                *)
(*                                                                         *)
(* An administrative call is a transaction of two steps: lockAuthorityHead *)
(* takes the head row FOR UPDATE and reads it, the same for every call;    *)
(* then the call writes and commits, or rolls back.  Resolve reads         *)
(* committed rows and takes no lock.                                       *)
(***************************************************************************)
EXTENDS Naturals

CONSTANTS Admins,    \* concurrent administrative calls
          MaxIssued  \* bound: generations of the reference

ASSUME AuthorityConstants == MaxIssued \in Nat \ {0}

VARIABLES grants,  \* authority_grants, by generation
          head,    \* authority_heads: next_generation (0: no row) and closed
          tx       \* the open transactions

authorityVars == <<grants, head, tx>>

Generations == 1 .. MaxIssued

\* A generation is issued to the principal that asks or to another one, and
\* ends when it is revoked or expires: neither is ever undone, and Resolve
\* makes no difference between them.
GrantStates == {"NONE", "OURS", "OTHERS", "ENDED"}

NoTx == [open |-> FALSE, next |-> 0, closed |-> FALSE]

AuthorityTypeOK ==
    /\ grants \in [Generations -> GrantStates]
    /\ head \in [next : 0 .. MaxIssued + 1, closed : BOOLEAN]
    /\ tx \in [Admins -> [open : BOOLEAN, next : 0 .. MaxIssued + 1, closed : BOOLEAN]]

AuthorityInit ==
    /\ grants = [g \in Generations |-> "NONE"]
    /\ head = [next |-> 0, closed |-> FALSE]
    /\ tx = [a \in Admins |-> NoTx]

Issued == {g \in Generations : grants[g] # "NONE"}

\* COALESCE(MAX(generation), 0) + 1, which seeds a head row that is not there.
SeededNext == IF Issued = {} THEN 1 ELSE 1 + CHOOSE g \in Issued : \A h \in Issued : h <= g
HeadNext   == IF head.next = 0 THEN SeededNext ELSE head.next

\* Resolve, for our principal: the latest generation or nothing.
Resolvable == {g \in Issued : grants[g] = "OURS" /\ \A h \in Issued : h <= g}

-------------------------------------------------------------------------------
\* Mutant: the head is read without its lock.
lockAuthorityHeadShared(a) ==
    /\ ~tx[a].open
    /\ tx' = [tx EXCEPT ![a] = [open |-> TRUE, next |-> HeadNext, closed |-> head.closed]]
    /\ UNCHANGED <<grants, head>>

lockAuthorityHead(a) ==
    /\ \A b \in Admins : ~tx[b].open
    /\ tx' = [tx EXCEPT ![a] = [open |-> TRUE, next |-> HeadNext, closed |-> head.closed]]
    /\ UNCHANGED <<grants, head>>

\* INSERT of the generation read; an existing one is a primary key violation.
IssueGrant(a) ==
    /\ tx[a].open /\ ~tx[a].closed
    /\ tx[a].next \in Generations \ Issued
    /\ \E holder \in {"OURS", "OTHERS"} : grants' = [grants EXCEPT ![tx[a].next] = holder]
    /\ head' = [head EXCEPT !.next = HeadNext + 1]

RevokeGeneration(a) ==
    /\ tx[a].open
    /\ \E g \in Issued : grants' = [grants EXCEPT ![g] = "ENDED"]
    /\ head' = [head EXCEPT !.next = HeadNext]

RevokeGrant(a) ==
    /\ tx[a].open /\ Issued # {}
    /\ grants' = [g \in Generations |-> IF g \in Issued THEN "ENDED" ELSE "NONE"]
    /\ head' = [head EXCEPT !.next = HeadNext]

CloseAuthorityRef(a) ==
    /\ tx[a].open
    /\ head' = [next |-> HeadNext, closed |-> TRUE]
    /\ UNCHANGED grants

Commit(a) ==
    /\ IssueGrant(a) \/ RevokeGeneration(a) \/ RevokeGrant(a) \/ CloseAuthorityRef(a)
    /\ tx' = [tx EXCEPT ![a] = NoTx]

\* A closed reference, a generation that is not there, a database error: the
\* seeded head row goes too.
Rollback(a) ==
    /\ tx[a].open
    /\ tx' = [tx EXCEPT ![a] = NoTx]
    /\ UNCHANGED <<grants, head>>

\* expires_at passes on the database clock.
GrantExpires(g) ==
    /\ grants[g] = "OURS"
    /\ grants' = [grants EXCEPT ![g] = "ENDED"]
    /\ UNCHANGED <<head, tx>>

AuthorityStep ==
    \/ \E a \in Admins : lockAuthorityHead(a) \/ Commit(a) \/ Rollback(a)
    \/ \E g \in Generations : GrantExpires(g)
===============================================================================
