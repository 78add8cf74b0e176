---------------------------- MODULE Circulation -----------------------------
(***************************************************************************)
(* What the borrow workflow promises, with no events, retries, patrons or  *)
(* compensations in it.  Each reservation of a book is open, then borrowed *)
(* and returned, or it is released; Lending opens at most one loan for it; *)
(* and the two sides may only settle the same way: a loan is cancelled     *)
(* only when its reservation was released, and a book comes back only      *)
(* because its loan was returned.                                          *)
(***************************************************************************)
CONSTANTS Books, ReservationIds, None

VARIABLES
    phase,   \* Catalog's side of each reservation
    title,   \* the book it is for
    fate     \* Lending's side: the loan of the reservation

circulation == <<phase, title, fate>>

Open(r) == phase[r] \in {"reserved", "borrowed"}

Init ==
    /\ phase = [r \in ReservationIds |-> "none"]
    /\ title = [r \in ReservationIds |-> None]
    /\ fate = [r \in ReservationIds |-> "none"]

(* A book is reserved only while no reservation of it is open. *)
Reserve(r, b) ==
    /\ phase[r] = "none"
    /\ \A s \in ReservationIds : Open(s) => title[s] # b
    /\ phase' = [phase EXCEPT ![r] = "reserved"]
    /\ title' = [title EXCEPT ![r] = b]
    /\ UNCHANGED fate

(* Lending opens the loan of a reservation once; the reservation may have  *)
(* been released meanwhile.                                                *)
Lend(r) ==
    /\ phase[r] # "none"
    /\ fate[r] = "none"
    /\ fate' = [fate EXCEPT ![r] = "active"]
    /\ UNCHANGED <<phase, title>>

Confirm(r) ==
    /\ phase[r] = "reserved"
    /\ fate[r] \in {"active", "returned"}
    /\ phase' = [phase EXCEPT ![r] = "borrowed"]
    /\ UNCHANGED <<title, fate>>

(* Any number of reservations may expire together. *)
Release(R) ==
    /\ \A r \in R : phase[r] = "reserved"
    /\ phase' = [r \in ReservationIds |-> IF r \in R THEN "released" ELSE phase[r]]
    /\ UNCHANGED <<title, fate>>

GiveBack(r) ==
    /\ fate[r] = "active"
    /\ fate' = [fate EXCEPT ![r] = "returned"]
    /\ UNCHANGED <<phase, title>>

Cancel(r) ==
    /\ fate[r] = "active"
    /\ phase[r] = "released"
    /\ fate' = [fate EXCEPT ![r] = "cancelled"]
    /\ UNCHANGED <<phase, title>>

Reshelve(r) ==
    /\ phase[r] = "borrowed"
    /\ fate[r] = "returned"
    /\ phase' = [phase EXCEPT ![r] = "returned"]
    /\ UNCHANGED <<title, fate>>

Next ==
    \/ \E r \in ReservationIds :
         \/ \E b \in Books : Reserve(r, b)
         \/ Lend(r) \/ Confirm(r) \/ GiveBack(r) \/ Cancel(r) \/ Reshelve(r)
    \/ \E R \in SUBSET ReservationIds : Release(R)

Spec == Init /\ [][Next]_circulation
=============================================================================
