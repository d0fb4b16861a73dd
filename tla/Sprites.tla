------------------------------- MODULE Sprites -------------------------------
(***************************************************************************)
(* The cache of sprites each server keeps in front of the characters'      *)
(* rows.  A load holds the lock of its character from its second look at   *)
(* the cache to its insertion, and reads the row in between.  A change of  *)
(* a character writes the row and then evicts the entry of its own server, *)
(* without that lock; the other servers are not told.                      *)
(***************************************************************************)
EXTENDS Naturals

CONSTANTS Replica, Character, MaxVersion

VARIABLES
  row,       \* the version of the sprites in the row; 0 is no row
  entry,     \* what each replica has cached; 0 is nothing
  load,      \* the load under way at each replica, and what it has read
  evicting,  \* how many changes are written whose eviction is to come
  excused    \* history: the entry may be old, by a change elsewhere or
             \* because a load had read before the change was evicted

vars == <<row, entry, load, evicting, excused>>

Version == 1..MaxVersion
None    == 0
NoLoad  == [stage |-> "none", read |-> None]
Begun   == [stage |-> "begun", read |-> None]

Init ==
  /\ row = [c \in Character |-> 1]
  /\ entry = [r \in Replica |-> [c \in Character |-> None]]
  /\ load = [r \in Replica |-> [c \in Character |-> NoLoad]]
  /\ evicting = [r \in Replica |-> [c \in Character |-> 0]]
  /\ excused = [r \in Replica |-> [c \in Character |-> FALSE]]

(* Nothing in the cache, the lock taken, and still nothing.                *)
BeginLoad(r, c) ==
  /\ load[r][c] = NoLoad /\ entry[r][c] = None
  /\ load' = [load EXCEPT ![r][c] = Begun]
  /\ UNCHANGED <<row, entry, evicting, excused>>

(* No row: not found.                                                      *)
ReadRow(r, c) ==
  /\ load[r][c] = Begun
  /\ load' = [load EXCEPT ![r][c] = 
                 IF row[c] = None THEN NoLoad ELSE [stage |-> "read", read |-> row[c]]]
  /\ UNCHANGED <<row, entry, evicting, excused>>

Loaded(r, c) == load[r][c].stage = "read"
Insert(r, c) ==
  /\ Loaded(r, c)
  /\ entry' = [entry EXCEPT ![r][c] = load[r][c].read]
  /\ load' = [load EXCEPT ![r][c] = NoLoad]
  /\ UNCHANGED <<row, evicting, excused>>

(* The read fails, the sprites do not decode, or the client is gone.       *)
DropLoad(r, c) ==
  /\ load[r][c] # NoLoad
  /\ load' = [load EXCEPT ![r][c] = NoLoad]
  /\ UNCHANGED <<row, entry, evicting, excused>>

Elsewhere(r, c) == [s \in Replica |-> IF s = r THEN excused[r]
                                      ELSE [excused[s] EXCEPT ![c] = TRUE]]
ChangeOnly(r, c, version) ==    \* variant: and nothing is evicted
  /\ row[c] # None
  /\ row' = [row EXCEPT ![c] = version]
  /\ excused' = Elsewhere(r, c)
  /\ UNCHANGED <<entry, load, evicting>>

Change(r, c, version) ==
  /\ row[c] # None
  /\ row' = [row EXCEPT ![c] = version]
  /\ evicting' = [evicting EXCEPT ![r][c] = @ + 1]
  /\ excused' = Elsewhere(r, c)
  /\ UNCHANGED <<entry, load>>

(* A redraw under the same id; a deletion by the owner.                    *)
Redraw(r, c) == row[c] < MaxVersion /\ Change(r, c, row[c] + 1)
Delete(r, c) == Change(r, c, None)

Evict(r, c) ==
  /\ evicting[r][c] > 0
  /\ entry' = [entry EXCEPT ![r][c] = None]
  /\ evicting' = [evicting EXCEPT ![r][c] = @ - 1]
  /\ excused' = [excused EXCEPT ![r][c] = Loaded(r, c)]
  /\ UNCHANGED <<row, load>>

Restart(r) ==
  /\ entry' = [entry EXCEPT ![r] = [c \in Character |-> None]]
  /\ load' = [load EXCEPT ![r] = [c \in Character |-> NoLoad]]
  /\ evicting' = [evicting EXCEPT ![r] = [c \in Character |-> 0]]
  /\ excused' = [excused EXCEPT ![r] = [c \in Character |-> FALSE]]
  /\ UNCHANGED row

Next == \E r \in Replica :
  \/ Restart(r)
  \/ \E c \in Character : \/ BeginLoad(r, c) \/ ReadRow(r, c) \/ Insert(r, c)
                          \/ DropLoad(r, c) \/ Redraw(r, c) \/ Delete(r, c)
                          \/ Evict(r, c)

Spec == Init /\ [][Next]_vars

(* A replica serves old sprites, or those of a character deleted, only if  *)
(* its eviction is still to come, the change was made by another replica,  *)
(* or a load had read the row before the change and inserted it after the  *)
(* eviction.                                                               *)
OldSpritesExplained ==
  \A r \in Replica, c \in Character :
    entry[r][c] \notin {None, row[c]} => evicting[r][c] > 0 \/ excused[r][c]
=============================================================================
