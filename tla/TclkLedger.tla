------------------------------ MODULE TclkLedger ------------------------------
(***************************************************************************)
(* What the coordination rooms promise whoever reads them.  A frame is     *)
(* posted in one step: it goes to the end of the transcript of its room,   *)
(* under the next number, and in the same step the contract it is about    *)
(* moves or stays.  No request is under way, no number or state is read    *)
(* ahead, nothing waits or fails: TclkRooms has all that, and implements   *)
(* this.                                                                   *)
(***************************************************************************)
EXTENDS Naturals, Sequences

CONSTANTS
  Contracts,   \* contract identifiers; each also names its deal room
  Offer,       \* the offer, its room and its row
  FrameTypes,  \* the types of frames
  Machine      \* <<status, frame type, status>> of the protocol's machine

VARIABLES
  serial,    \* whether the database lets one session write at a time
  rooms,     \* the rooms that exist
  log,       \* the frames of all transcripts, in order
  standing   \* contract, or the offer -> its status

vars == <<serial, rooms, log, standing>>

Named == Contracts \cup {Offer}

Init ==
  /\ serial \in BOOLEAN
  /\ rooms = {}
  /\ log = <<>>
  /\ standing = [c \in Named |-> "none"]

\* The numbers after those in use, and the first.
Numbers == {1} \cup {log[i].seq + 1 : i \in DOMAIN log}

\* n is the number after the last one of the room, and no number is left out.
IsNext(room, n) ==
  /\ \A m \in 1 .. n - 1 : \E i \in DOMAIN log : log[i].room = room /\ log[i].seq = m
  /\ \A i \in DOMAIN log : log[i].room = room => log[i].seq < n

\* A frame goes to a room that exists, or to the offer room, which it makes.
Frame(room, type, about) ==
  /\ type = "offer" <=> about = Offer
  /\ room \in rooms \cup {Offer}
  /\ \E n \in Numbers :
       /\ log' = Append(log, [room |-> room, seq |-> n, type |-> type, about |-> about])
       /\ IsNext(room, n)
  /\ UNCHANGED serial

\* The machine refuses the frame, cannot be asked, or knows no such contract.
Keep ==
  /\ rooms' = rooms \cup {Offer}
  /\ UNCHANGED standing

\* An offer takes effect on a row of the offer: on its own if there is none.
Open(row) ==
  /\ rooms' = rooms \cup {Offer}
  /\ row = Offer \/ standing[row] # "none"
  /\ serial /\ row = Offer /\ standing[row] = "none" =>
       \A other \in Named : standing[other] = "none"
  /\ standing' = [standing EXCEPT ![row] = "proposed"]

\* An acceptance takes effect when the offer is on record, however the
\* contract stands; then there is a deal room.
Accept(c) ==
  /\ rooms' = rooms \cup {Offer, c}
  /\ \E i \in DOMAIN log : log[i].type = "offer" /\ log[i].about = Offer
  /\ standing' = [standing EXCEPT ![c] = "accepted"]

\* The last frame of the offer or of c is in another room than room.
MovedElsewhere(c, room) ==
  \E i \in DOMAIN log :
    /\ log[i].about \in {Offer, c} /\ log[i].room # room
    /\ \A j \in DOMAIN log : j > i => log[j].about \notin {Offer, c}

\* Any other frame takes a contract on from its status; when sessions write
\* side by side, also from one it had before a frame in another room.
Advance(room, type, c) ==
  /\ rooms' = rooms \cup {Offer}
  /\ standing[c] # "none"
  /\ \E step \in Machine :
       /\ step[2] = type
       /\ step[1] = standing[c] \/ (~serial /\ MovedElsewhere(c, room))
       /\ standing' = [standing EXCEPT ![c] = step[3]]

\* A room is made without a frame.
MakeRoom(room) ==
  /\ rooms' = rooms \cup {room}
  /\ UNCHANGED <<serial, log, standing>>

Next ==
  \E room \in Named :
    \/ MakeRoom(room)
    \/ \E type \in FrameTypes, about \in Named :
         /\ Frame(room, type, about)
         /\ \/ Keep
            \/ type = "offer" /\ \E row \in Named : Open(row)
            \/ type = "accept" /\ Accept(about)
            \/ type \notin {"offer", "accept"} /\ Advance(room, type, about)

Spec == Init /\ [][Next]_vars
=============================================================================
