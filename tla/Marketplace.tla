---------------------------- MODULE Marketplace -----------------------------
(***************************************************************************)
(* The use cases that move money outside the modules of their own: gifts,  *)
(* paid rooms, bookings and offers, lucky bags and the wheel, memberships, *)
(* all on the same wallets.                                                *)
(***************************************************************************)
EXTENDS Gifts, PaidRooms, Memberships

ASSUME JobAssumption ==
  \A j \in Jobs, p \in Session :
    \/ j[p] = [kind |-> "none"]
    \/ j[p] \in GiftRequests \/ j[p] \in RoomRequests \/ j[p] \in BookingRequests
    \/ j[p] \in FortuneRequests \/ j[p] \in MembershipRequests

vars == <<requestVars, giftVars, roomVars, bookingVars, fortuneVars, membershipVars>>

TypeOK == /\ RequestTypeOK
          /\ GiftTypeOK /\ RoomTypeOK /\ BookingTypeOK /\ FortuneTypeOK /\ MembershipTypeOK

Init == RequestInit /\ GiftInit /\ RoomInit /\ BookingInit /\ FortuneInit /\ MembershipInit

Step(p) ==
  \/ WalletStep(p) /\ UNCHANGED <<giftVars, roomVars, bookingVars, fortuneVars, membershipVars>>
  \/ GiftStep(p) /\ UNCHANGED <<roomVars, bookingVars, fortuneVars, membershipVars>>
  \/ RoomStep(p) /\ UNCHANGED <<giftVars, bookingVars, fortuneVars, membershipVars>>
  \/ BookingStep(p) /\ UNCHANGED <<giftVars, roomVars, fortuneVars, membershipVars>>
  \/ FortuneStep(p) /\ UNCHANGED <<giftVars, roomVars, bookingVars, membershipVars>>
  \/ MembershipStep(p) /\ UNCHANGED <<giftVars, roomVars, bookingVars, fortuneVars>>

Next == \/ \E p \in Session : Step(p)
        \/ VipEnds /\ UNCHANGED <<giftVars, roomVars, bookingVars, fortuneVars>>
        \/ MinutePasses /\ UNCHANGED <<roomVars, bookingVars, fortuneVars, membershipVars>>
        \/ Quiet /\ UNCHANGED vars

Spec == Init /\ [][Next]_vars

-----------------------------------------------------------------------------
(***************************************************************************)
(* What is on file was paid for, once and in full, and what was paid is on *)
(* file or belongs to a request that failed in between; whichever requests *)
(* run at the same time on the same wallets, and whichever statements fail.*)
(***************************************************************************)
PurchasesArePaid == /\ RoomsArePaid /\ BookingsArePaid /\ FortunesArePaid /\ MembershipsArePaid
                    /\ BagHoldsItsShares

(***************************************************************************)
(* The checks the code makes before it writes hold one request at a time:  *)
(* whatever exists twice was made by requests that overlapped.             *)
(***************************************************************************)
DuplicatesOverlapped == /\ RoomDuplicatesOverlapped /\ BookingDuplicatesOverlapped
                        /\ FortuneDuplicatesOverlapped /\ MembershipDuplicatesOverlapped
=============================================================================
