----------------------------- MODULE PaidRooms ------------------------------
(***************************************************************************)
(* internal/usecase/monetization_usecase.go: entry to paid rooms, tips for *)
(* toys, show requests, and the AI companion's chat.  Each payment is one  *)
(* transaction between a viewer's wallet and a host's; what it pays for is *)
(* read before the transaction, without a lock.                            *)
(***************************************************************************)
EXTENDS Requests

CONSTANTS Show,      \* the rows there may be in show_requests
          ShowOf,    \* ShowOf[s]: user, host and tips of request s
          OpenShows  \* the ones that are pending at the start

ASSUME ShowAssumption == /\ OpenShows \subseteq Show
                         /\ ShowOf \in [Show -> [user : User, host : User, tips : Nat]]

VARIABLES show,     \* show[s]: the status of request s, "none" before it is submitted
          chats,    \* the requests that have inserted a row in ai_chat_sessions
          messages  \* messages[p]: the rows p has in ai_chat_messages
roomVars == <<show, chats, messages>>

RoomTypeOK == /\ show \in [Show -> {"none", "pending", "accepted", "rejected"}]
              /\ chats \subseteq Session
              /\ messages \in [Session -> 0..2]

RoomInit == /\ show = [s \in Show |-> IF s \in OpenShows THEN "pending" ELSE "none"]
            /\ chats = {}
            /\ messages = [p \in Session |-> 0]

ChatFee == 5   \* 500 IDR, in the unit of the model's wallets

\* What the handlers let through.
JoinRoomRequest == [kind : {"join"}, user : User, host : User, amount : Nat \ {0}]
ControlToysRequest == [kind : {"toy"}, user : User, host : User, amount : Nat]
SubmitRequest == [kind : {"submit"}, show : Show]
AcceptRequest == [kind : {"accept"}, show : Show]
RejectRequest == [kind : {"reject"}, show : Show]
ChatRequest == [kind : {"chat"}, user : User, host : User, rude : BOOLEAN]
RoomRequests == JoinRoomRequest \cup ControlToysRequest \cup SubmitRequest \cup AcceptRequest
                \cup RejectRequest \cup ChatRequest

\* The transaction all four of them run: check, debit, credit, and the rows
\* in transactions, which stand and fall with the two wallets.
Transfer(u, h, amount, end) ==
  <<<<"afford", u, amount>>, <<"debit", u, amount>>, <<"credit", h, amount>>, end>>

JoinPaidRoom(p) ==
  LET u == job[p].user
      h == job[p].host
  IN  /\ Asked(p, "join")
      /\ IF h = u THEN Return(p)
         ELSE Begin(p, Transfer(u, h, job[p].amount, <<"commit">>), TRUE, 0)
      /\ UNCHANGED <<storeVars, roomVars>>

\* The call to the toy itself is made afterwards; its outcome is ignored.
ControlToys(p) ==
  /\ Asked(p, "toy")
  /\ IF job[p].amount = 0 THEN Return(p)
     ELSE Begin(p, Transfer(job[p].user, job[p].host, job[p].amount, <<"commit">>), TRUE, 0)
  /\ UNCHANGED <<storeVars, roomVars>>

SubmitShowRequest(p) ==
  LET s == job[p].show IN
  /\ Asked(p, "submit") /\ show[s] = "none"
  /\ Begin(p, <<<<"afford", ShowOf[s].user, ShowOf[s].tips>>, <<"createShow">>>>, FALSE, 0)
  /\ UNCHANGED <<storeVars, roomVars>>

CreateShowRequest(p) ==
  /\ At(p, "createShow")
  /\ show' = [show EXCEPT ![job[p].show] = "pending"]
  /\ Continue(p)
  /\ UNCHANGED <<storeVars, chats, messages>>

\* Mutant: the status is written without the payment.
AcceptUnpaid(p) ==
  /\ Asked(p, "accept")
  /\ IF show[job[p].show] # "pending" THEN Refuse(p)
     ELSE Begin(p, <<<<"acceptShow">>>>, TRUE, 0)
  /\ UNCHANGED <<storeVars, roomVars>>

GetShowRequestByID(s) == show[s]

AcceptShowRequest(p) ==
  LET s == job[p].show IN
  /\ Asked(p, "accept")
  /\ IF GetShowRequestByID(s) # "pending" THEN Refuse(p)
     ELSE Begin(p, Transfer(ShowOf[s].user, ShowOf[s].host, ShowOf[s].tips, <<"acceptShow">>),
                TRUE, 0)
  /\ UNCHANGED <<storeVars, roomVars>>

\* UpdateShowRequestStatus and the COMMIT after it: the row is locked between
\* the two, and nothing is read from it there.
AcceptShow(p) ==
  /\ At(p, "acceptShow")
  /\ CommitTx(p)
  /\ show' = [show EXCEPT ![job[p].show] = "accepted"]
  /\ UNCHANGED <<chats, messages>>

RejectShowRequest(p) ==
  /\ Asked(p, "reject")
  /\ IF GetShowRequestByID(job[p].show) # "pending" THEN Refuse(p)
     ELSE Begin(p, <<<<"rejectShow">>>>, FALSE, 0)
  /\ UNCHANGED <<storeVars, roomVars>>

RejectShow(p) ==
  /\ At(p, "rejectShow")
  /\ show' = [show EXCEPT ![job[p].show] = "rejected"]
  /\ Continue(p)
  /\ UNCHANGED <<storeVars, chats, messages>>

\* The fee is paid before the words of the message are looked at.
SendAIChatMessage(p) ==
  /\ Asked(p, "chat")
  /\ Begin(p, Transfer(job[p].user, job[p].host, ChatFee, <<"commit">>)
              \o <<<<"filter">>, <<"session">>, <<"message">>, <<"message">>>>, TRUE, 0)
  /\ UNCHANGED <<storeVars, roomVars>>

FilterWords(p) ==
  /\ At(p, "filter")
  /\ IF job[p].rude THEN Abort(p) ELSE Continue(p) /\ UNCHANGED storeVars
  /\ UNCHANGED roomVars

SameChat(p, q) == job[p].user = job[q].user /\ job[p].host = job[q].host

\* GetAIChatSession, and CreateAIChatSession if there is none: no constraint
\* keeps a second row out.
GetAIChatSession(p) ==
  /\ At(p, "session")
  /\ GoTo(p, IF \E q \in chats : SameChat(p, q) THEN Rest(p) ELSE <<<<"newSession">>>> \o Rest(p))
  /\ UNCHANGED <<storeVars, roomVars>>

CreateAIChatSession(p) ==
  /\ At(p, "newSession")
  /\ chats' = chats \cup {p}
  /\ Continue(p)
  /\ UNCHANGED <<storeVars, show, messages>>

SaveAIChatMessage(p) ==
  /\ At(p, "message")
  /\ messages' = [messages EXCEPT ![p] = @ + 1]
  /\ Continue(p)
  /\ UNCHANGED <<storeVars, show, chats>>

RoomStep(p) == \/ JoinPaidRoom(p) \/ ControlToys(p)
               \/ SubmitShowRequest(p) \/ CreateShowRequest(p)
               \/ AcceptShowRequest(p) \/ AcceptShow(p)
               \/ RejectShowRequest(p) \/ RejectShow(p)
               \/ SendAIChatMessage(p) \/ FilterWords(p) \/ GetAIChatSession(p)
               \/ CreateAIChatSession(p) \/ SaveAIChatMessage(p)

-----------------------------------------------------------------------------
Payment(p) == CASE job[p].kind \in {"join", "toy"} -> [user |-> job[p].user, host |-> job[p].host,
                                                       tips |-> job[p].amount]
                [] job[p].kind = "chat"   -> [user |-> job[p].user, host |-> job[p].host,
                                              tips |-> ChatFee]
                [] job[p].kind = "accept" -> ShowOf[job[p].show]
Payers == Kind("join") \cup Kind("toy") \cup Kind("chat") \cup Kind("accept")
HasPaid(p) == LET t == Payment(p) IN
  /\ moved[p][t.user] = -t.tips
  /\ moved[p][t.host] = t.tips
  /\ \A u \in User \ {t.user, t.host} : moved[p][u] = 0
HasNotPaid(p) == \A u \in User : moved[p][u] = 0

Accepts(s) == {p \in Kind("accept") : job[p].show = s}
Answers(s) == Accepts(s) \cup {p \in Kind("reject") : job[p].show = s}

(***************************************************************************)
(* Every payment moves the whole amount from the viewer to the host or     *)
(* nothing, and a room that was entered, a toy that was moved or a message *)
(* of the companion was paid for.                                          *)
(***************************************************************************)
RoomsArePaid ==
  \A p \in Payers : /\ HasPaid(p) \/ HasNotPaid(p)
                    /\ fate[p] = "done" /\ Payment(p).user # Payment(p).host => HasPaid(p)
                    /\ messages[p] > 0 => HasPaid(p)

(***************************************************************************)
(* The tips of a show request are paid when it is accepted; they are paid  *)
(* twice, or for a request that ends up rejected, only if two answers of   *)
(* the host overlapped, since the status is read outside the transaction.  *)
(* A viewer has one session with a companion unless two messages did.      *)
(***************************************************************************)
RoomDuplicatesOverlapped ==
  /\ \A s \in Show :
       LET paid == {p \in Accepts(s) : HasPaid(p)}
       IN  /\ show[s] = "accepted" => paid # {}
           /\ \A p, q \in paid : p # q => ~Alone(p, q)
           /\ (show[s] = "rejected" /\ paid # {}) =>
                \E p \in paid, q \in Answers(s) \ Accepts(s) : ~Alone(p, q)
  /\ \A p, q \in chats : (p # q /\ SameChat(p, q)) => ~Alone(p, q)

-----------------------------------------------------------------------------
(***************************************************************************)
(* Bookings (internal/usecase/booking_usecase.go) and the offers that lead *)
(* to them (internal/usecase/offer_usecase.go).  Nothing here runs in a    *)
(* transaction: the overlap check, the debit and the INSERT are statements *)
(* of their own.                                                           *)
(*                                                                         *)
(* Neither CreateBooking nor CreateUserOffer writes a value into every     *)
(* column that GetBookingByID and GetUserOfferByID scan into a string      *)
(* (join_token, host_message), so these two return an error for every row  *)
(* the program makes, and every answer to a booking or a user's offer is   *)
(* refused with "not found".                                               *)
(***************************************************************************)

CONSTANTS Slot,         \* the times a booking may be for
          Clash,        \* Clash[s]: the slots that overlap s
          Escrow,       \* what the user pays: the price and all the fees
          AgencyFee,    \* the part of it for the host's agency
          MaxBookings   \* max_bookings of the host's offer

ASSUME BookingAssumption == /\ Clash \in [Slot -> SUBSET Slot]
                            /\ \A s \in Slot : s \in Clash[s]
                            /\ {Escrow, AgencyFee} \subseteq Nat /\ AgencyFee <= Escrow /\ MaxBookings \in Nat

VARIABLES booking,   \* booking[p]: the status of the row p has in bookings
          offer,     \* the row in host_offers: bookings made and status
          bookedVia, \* the requests that have counted their booking in the offer
          userOffer  \* the requests that have a row in user_offers
bookingVars == <<booking, offer, bookedVia, userOffer>>

BookingTypeOK == /\ booking \in [Session -> {"none", "pending", "completed"}]
                 /\ offer \in [made : Nat, status : {"active", "fully_booked"}]
                 /\ bookedVia \subseteq Session
                 /\ userOffer \subseteq Session

BookingInit == /\ booking = [p \in Session |-> "none"]
               /\ offer = [made |-> 0, status |-> "active"]
               /\ bookedVia = {}
               /\ userOffer = {}

\* What the handlers let through.
BookingRequest == [kind : {"book"}, user : User, host : User, slot : Slot]
HostOfferRequest == [kind : {"bookOffer"}, user : User, host : User, slot : Slot]
UserOfferRequest == [kind : {"userOffer"}, user : User, amount : Nat \ {0}]
AnswerRequest == [kind : {"answer"}]
EndRequest == [kind : {"end"}, of : Session]
BookingRequests == BookingRequest \cup HostOfferRequest \cup UserOfferRequest \cup AnswerRequest
                   \cup EndRequest

\* Mutant: the slot is not looked at.
UncheckedRequest(u) == <<<<"price", u>>, <<"createBooking">>>>

\* RequestBooking.
RequestBooking(u) == <<<<"overlap">>, <<"price", u>>, <<"createBooking">>>>

RequestDirect(p) ==
  /\ Asked(p, "book")
  /\ Begin(p, RequestBooking(job[p].user), FALSE, 0)
  /\ UNCHANGED <<storeVars, bookingVars>>

\* BookOB: the count it read is part of the UPDATE after the booking.
BookOB(p) ==
  /\ Asked(p, "bookOffer")
  /\ IF offer.status # "active" \/ offer.made >= MaxBookings THEN Refuse(p)
     ELSE Begin(p, RequestBooking(job[p].user) \o <<<<"tryCount", offer.made + 1>>>>, FALSE, 0)
  /\ UNCHANGED <<storeVars, bookingVars>>

CheckOverlap(p) ==
  /\ At(p, "overlap")
  /\ IF \E q \in Session : booking[q] # "none" /\ job[q].slot \in Clash[job[p].slot]
     THEN Abort(p) ELSE Continue(p) /\ UNCHANGED storeVars
  /\ UNCHANGED bookingVars

\* The price and its fees.  The agency's is left out if the relation of the
\* host cannot be read.
PriceBooking(p) ==
  LET pay(price) == <<<<"afford", Arg(p, 2), price>>, <<"debit", Arg(p, 2), price>>>> IN
  /\ At(p, "price")
  /\ GoTo(p, pay(Escrow) \o Rest(p)) \/ Ignore(p, pay(Escrow - AgencyFee) \o Rest(p))
  /\ UNCHANGED <<storeVars, bookingVars>>

CreateBooking(p) ==
  /\ At(p, "createBooking")
  /\ booking' = [booking EXCEPT ![p] = "pending"]
  /\ Continue(p)
  /\ UNCHANGED <<storeVars, offer, bookedVia, userOffer>>

UpdateHostOfferBookings(p) ==
  /\ At(p, "tryCount")
  /\ \/ /\ offer' = [made |-> Arg(p, 2),
                     status |-> IF Arg(p, 2) >= MaxBookings THEN "fully_booked" ELSE offer.status]
        /\ bookedVia' = bookedVia \cup {p}
        /\ Continue(p)
     \/ Ignore(p, Rest(p)) /\ UNCHANGED <<offer, bookedVia>>
  /\ UNCHANGED <<storeVars, booking, userOffer>>

\* CreateBO with a prepaid amount.
CreateBO(p) ==
  /\ Asked(p, "userOffer")
  /\ Begin(p, <<<<"debit", job[p].user, job[p].amount>>, <<"createOffer">>>>, FALSE, 0)
  /\ UNCHANGED <<storeVars, bookingVars>>

CreateUserOffer(p) ==
  /\ At(p, "createOffer")
  /\ userOffer' = userOffer \cup {p}
  /\ Continue(p)
  /\ UNCHANGED <<storeVars, booking, offer, bookedVia>>

\* AcceptBooking, RejectBooking and CancelBooking; RespondToBO and
\* AcceptBOCounter: the row cannot be read.
Answer(p) == Asked(p, "answer") /\ Refuse(p) /\ UNCHANGED <<storeVars, bookingVars>>

\* EndSession writes the status first; then the booking it reads is nil and
\* the handler panics, before anything is paid out.
EndSession(p) ==
  /\ Asked(p, "end")
  /\ booking' = [booking EXCEPT ![job[p].of] = IF @ = "none" THEN @ ELSE "completed"]
  /\ Refuse(p)
  /\ UNCHANGED <<storeVars, offer, bookedVia, userOffer>>

BookingStep(p) == \/ RequestDirect(p) \/ BookOB(p) \/ CheckOverlap(p) \/ PriceBooking(p)
                  \/ CreateBooking(p)
                  \/ UpdateHostOfferBookings(p)
                  \/ CreateBO(p) \/ CreateUserOffer(p)
                  \/ Answer(p) \/ EndSession(p)

-----------------------------------------------------------------------------
Booked(p) == booking[p] # "none"

\* A booking or a prepaid offer on file was paid for in full, without the
\* agency's fee only where the agency could not be read; a request that failed
\* has paid only if it stopped at the INSERT.
BookingsArePaid ==
  /\ \A p \in Kind("book") \cup Kind("bookOffer") :
       LET inFull == {Escrow} \cup (IF faults > 0 THEN {Escrow - AgencyFee} ELSE {}) IN
       /\ -moved[p][job[p].user] \in {0} \cup inFull
       /\ Booked(p) => -moved[p][job[p].user] \in inFull
       /\ (moved[p][job[p].user] # 0 /\ ~Booked(p)) => Head(plan[p])[1] = "createBooking"
  /\ \A p \in Kind("userOffer") :
       /\ p \in userOffer => moved[p][job[p].user] = -job[p].amount
       /\ (moved[p][job[p].user] # 0 /\ p \notin userOffer) => Head(plan[p])[1] = "createOffer"

(***************************************************************************)
(* A host is booked twice for one time, or an offer beyond its limit, only *)
(* by requests that overlapped.                                            *)
(***************************************************************************)
BookingDuplicatesOverlapped ==
  /\ \A p, q \in {r \in Session : Booked(r)} :
       (p # q /\ job[q].slot \in Clash[job[p].slot]) => ~Alone(p, q)
  /\ LET via == {p \in Kind("bookOffer") : Booked(p)}
     IN  Cardinality(via) > MaxBookings => (via \ bookedVia # {} \/ \E p, q \in via : p # q /\ ~Alone(p, q))
=============================================================================
