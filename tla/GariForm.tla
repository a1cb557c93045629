-------------------------------- MODULE GariForm -------------------------------
(***************************************************************************)
(* src/delfosclient/src/gariform.cpp: seeds and rooms ("sessions") of Gari *)
(* behind buttons.  The user id in the line edit is represented by the     *)
(* room that issued it.  A slot whose request fails cannot tell whether    *)
(* Gari carried it out and the reply got lost.  Slots that only pass ids   *)
(* on are not modelled.                                                    *)
(***************************************************************************)
EXTENDS Console

CONSTANTS
  Seed, NoSeed,
  Room, NoRoom    \* ids of sessions; NoRoom is also the empty line edit

ASSUME GariFormAssumption == NoSeed \notin Seed /\ NoRoom \notin Room

VARIABLES
  seed_id, session_id,   \* _seed_id, _session_id
  user_id,               \* useridLineEdit
  gari_seeds,            \* external: the seeds Gari has
  gari_rooms             \* external: each room "new", "open" or "deleted"

gariForm     == <<seed_id, session_id, user_id>>
gariFormVars == <<gariForm, gari_seeds, gari_rooms>>

Init_GariForm ==
  /\ seed_id = NoSeed
  /\ session_id = NoRoom
  /\ user_id = NoRoom
  /\ gari_seeds = {}
  /\ gari_rooms = [r \in Room |-> "new"]

RoomOpen(r) == r # NoRoom /\ gari_rooms[r] = "open"

-----------------------------------------------------------------------------
(* The id is new and kept whether or not Gari accepts the seed. *)
CreateSeed ==
  /\ \E g \in Seed \ (gari_seeds \cup {seed_id}) :
       /\ seed_id' = g
       /\ gari_seeds' \in {gari_seeds, gari_seeds \cup {g}}
  /\ UNCHANGED <<session_id, user_id, gari_rooms>>

ReadSeed ==
  /\ seed_id \in gari_seeds
  /\ UNCHANGED <<gari_seeds, gari_rooms>>

DeleteSeed ==
  /\ seed_id \in gari_seeds
  /\ gari_seeds' = gari_seeds \ {seed_id}
  /\ UNCHANGED gari_rooms

(* Reading a seed clears its id as deleting it does. *)
ForgetSeed ==
  /\ seed_id' = NoSeed
  /\ UNCHANGED <<session_id, user_id>>

(* The user id of the previous room stays in the line edit. *)
CreateSession ==
  /\ \E r \in Room \ {session_id} :
       /\ gari_rooms[r] = "new"
       /\ session_id' = r
       /\ \/ gari_rooms' = [gari_rooms EXCEPT ![r] = "open"]
          \/ UNCHANGED gari_rooms
  /\ UNCHANGED <<seed_id, user_id, gari_seeds>>

DeleteSession ==
  /\ RoomOpen(session_id)
  /\ gari_rooms' = [gari_rooms EXCEPT ![session_id] = "deleted"]
  /\ UNCHANGED gari_seeds

\* a bug: the line edit keeps the user id of the deleted session
ForgetSessionOnly ==
  /\ session_id' = NoRoom
  /\ UNCHANGED <<seed_id, user_id>>

ForgetSession ==
  /\ session_id' = NoRoom
  /\ user_id' = NoRoom
  /\ UNCHANGED seed_id

(* The read issues a user id, but with one in the line edit it asks for a  *)
(* difference only.                                                        *)
ReadSession ==
  /\ user_id = NoRoom
  /\ RoomOpen(session_id)
  /\ UNCHANGED <<gari_seeds, gari_rooms>>

StoreUser(r) ==
  /\ user_id' = r
  /\ UNCHANGED <<seed_id, session_id>>

-----------------------------------------------------------------------------
(***************************************************************************)
(* A slot whose request clears or stores something once the response is    *)
(* written.                                                                *)
(***************************************************************************)
Slot(slot, Request, Capture) ==
  \/ Begin(slot, <<>>) /\ UNCHANGED gariFormVars
  \/ Request /\ Answered(slot, <<>>) /\ UNCHANGED gariForm
  \/ Request /\ Whole(slot) /\ Capture
  \/ Request /\ Unanswered(slot) /\ UNCHANGED gariForm
  \/ Return(slot, "answer") /\ Capture /\ UNCHANGED <<gari_seeds, gari_rooms>>

(* The creations take effect before the response is written. *)
CreateSlot(slot, Create) ==
  \/ Begin(slot, <<>>) /\ UNCHANGED gariFormVars
  \/ Create /\ (Return(slot, "ask") \/ Whole(slot))

ReadSessionSlot ==
  \/ Begin("readSession", <<>>) /\ UNCHANGED gariFormVars
  \/ ReadSession /\ Answered("readSession", <<session_id>>)
       /\ UNCHANGED gariForm
  \/ ReadSession /\ Whole("readSession") /\ StoreUser(session_id)
  \/ /\ Return("readSession", "answer")
     /\ StoreUser(frame.got[1])
     /\ UNCHANGED <<gari_seeds, gari_rooms>>

(* Refused, or the reply to a read got lost or names no user. *)
GariRefuses ==
  /\ \E slot \in {"readSeed", "deleteSeed", "deleteSession", "readSession"} :
       Return(slot, "ask")
  /\ UNCHANGED gariFormVars

GariFormSlots ==
  \/ CreateSlot("createSeed", CreateSeed)
  \/ CreateSlot("createSession", CreateSession)
  \/ Slot("readSeed", ReadSeed, ForgetSeed)
  \/ Slot("deleteSeed", DeleteSeed, ForgetSeed)
  \/ Slot("deleteSession", DeleteSession, ForgetSession)
  \/ ReadSessionSlot
  \/ GariRefuses

-----------------------------------------------------------------------------
GariFormTypes ==
  /\ seed_id \in Seed \cup {NoSeed}
  /\ {session_id, user_id} \subseteq Room \cup {NoRoom}
  /\ gari_seeds \in SUBSET Seed
  /\ gari_rooms \in [Room -> {"new", "open", "deleted"}]

(***************************************************************************)
(* The form forgets an open room only when a deletion inside whose line it *)
(* was created ends, and takes up a user id of another room only when a    *)
(* read of the session was interrupted by its deletion or by the creation  *)
(* of another.  (A room may be replaced by the creation of the next.)      *)
(***************************************************************************)
Interrupted(slot, by) == frame.slot = slot /\ frame.inner \cap by # {}

RoomAndUserKept ==
  [][/\ RoomOpen(session_id) /\ session_id' = NoRoom
           /\ gari_rooms'[session_id] = "open"
         => Interrupted("deleteSession", {"createSession"})
     /\ user_id = session_id \/ user_id = NoRoom
         => \/ user_id' \in {session_id', NoRoom}
            \/ session_id' \notin {session_id, NoRoom}
            \/ Interrupted("readSession", {"createSession", "deleteSession"})]_
    gariFormVars
=============================================================================
