------------------------------- MODULE Device -------------------------------
(***************************************************************************)
(* The GaggiMate display as the archiver sees it: a shot history served    *)
(* over HTTP (index.bin and one .slog file per shot) and WebSocket (notes, *)
(* deletion).  The firmware is not part of this repository, so everything  *)
(* here is modelled from how the archiver's client, parsers and comments   *)
(* describe it.                                                            *)
(*                                                                         *)
(* One shot is an entry of the history.  Its file grows while the firmware *)
(* flushes it ("header": no samples yet, "partial": some, "full": all) and *)
(* settles when the flush ends or is cut off.                              *)
(***************************************************************************)
EXTENDS Naturals

CONSTANTS
  MaxShots,        \* ids the device hands out per life of its counter
  MaxLife,         \* lives of the shot counter: 1 + the number of resets
  MaxDay,          \* days the model runs for
  LastRecordDay,   \* no shot is pulled after this day
  Firmware,        \* firmwares: [index: Nat, slog: Nat], the versions they write
  FirstFirmware,   \* the one installed at the start
  Docs,            \* notes documents: [text, stars]; stars is the rating
  Timed,           \* whether an index entry can claim a duration > 0
  MidWrite,        \* stages at which a file can be observed before it is full
  NONE             \* absent: no entry, no file, no record, no document

ASSUME SizesAreNat ==
  /\ MaxShots \in Nat /\ MaxLife \in Nat \ {0}
  /\ MaxDay \in Nat /\ LastRecordDay \in Nat

ASSUME FirmwareTyped ==
  /\ Firmware \subseteq [index : Nat, slog : Nat]
  /\ FirstFirmware \in Firmware

ASSUME EntryDataTyped ==
  /\ Timed \subseteq BOOLEAN
  /\ MidWrite \subseteq {"header", "partial"}
  /\ NONE \notin Docs
  /\ \A d \in Docs : d.stars \in Nat

VARIABLES
  life,      \* which life of the shot counter this is
  fw,        \* installed firmware
  nextId,    \* next_id of the index header
  entries,   \* history: id -> entry or NONE
  today      \* the date, on the device and on the archive host

deviceVars == <<life, fw, nextId, entries, today>>

Ids == 1..MaxShots
SlogVersion == {f.slog : f \in Firmware}
Stage == MidWrite \cup {"full"}

\* A history entry: day of the shot, whether the index claims a duration,
\* how much of the file is on flash, whether it is still being flushed, the
\* .slog version that wrote it, the notes document, the DELETED flag.
Entry == [ts : 0..MaxDay, timed : BOOLEAN, stage : Stage, open : BOOLEAN,
          fw : SlogVersion, doc : Docs \cup {NONE}, deleted : BOOLEAN]

ASSUME NoneIsNoEntry == NONE \notin Entry

\* The bytes of a .slog file, up to hash equality.  The shot id is left out:
\* bytes are only ever compared with bytes of the same id.
Bytes == [life : Nat, fw : SlogVersion, stage : Stage]

Live(i) == entries[i] # NONE /\ ~entries[i].deleted
Slog(i) == [life |-> life, fw |-> entries[i].fw, stage |-> entries[i].stage]
HasSamples(bytes) == bytes.stage # "header"

\* HAS_NOTES is only set when the notes carry a rating > 0.
Stars(doc) == IF doc = NONE THEN 0 ELSE doc.stars
IndexEntry(e) == [ts |-> e.ts, timed |-> e.timed, deleted |-> e.deleted,
                  rating |-> Stars(e.doc), hasNotes |-> Stars(e.doc) > 0]

\* index.bin: created with the first shot; before that the request is a 404.
IndexExists == nextId > 1
Index == [version |-> fw.index, next |-> nextId,
          entries |-> [i \in Ids |-> IF entries[i] = NONE THEN NONE
                                     ELSE IndexEntry(entries[i])]]

DeviceInit ==
  /\ life = 1 /\ fw = FirstFirmware /\ nextId = 1
  /\ entries = [i \in Ids |-> NONE]
  /\ today = 0

\* A shot is pulled: its index entry appears while the file is still flushing.
RecordShot ==
  /\ nextId <= MaxShots
  /\ today <= LastRecordDay
  /\ \A i \in Ids : entries[i] # NONE => ~entries[i].open
  /\ \E timed \in Timed, stage \in Stage :
       entries' = [entries EXCEPT ![nextId] =
         [ts |-> today, timed |-> timed, stage |-> stage, open |-> stage # "full",
          fw |-> fw.slog, doc |-> NONE, deleted |-> FALSE]]
  /\ nextId' = nextId + 1
  /\ UNCHANGED <<life, fw, today>>

\* More samples reach the file.
GrowFlush(i) ==
  /\ Live(i) /\ entries[i].open
  /\ entries[i].stage = "header" /\ "partial" \in Stage
  /\ entries' = [entries EXCEPT ![i].stage = "partial"]
  /\ UNCHANGED <<life, fw, nextId, today>>

FinishFlush(i) ==
  /\ Live(i) /\ entries[i].open
  /\ entries' = [entries EXCEPT ![i].stage = "full", ![i].open = FALSE]
  /\ UNCHANGED <<life, fw, nextId, today>>

\* A WiFi drop or power cut ends the flush: the file stays what it is.
DamageFlush(i) ==
  /\ Live(i) /\ entries[i].open
  /\ entries' = [entries EXCEPT ![i].open = FALSE]
  /\ UNCHANGED <<life, fw, nextId, today>>

\* The user writes or edits notes from the phone.
SaveNotes(i) ==
  /\ Live(i)
  /\ \E doc \in Docs \ {entries[i].doc} :
       entries' = [entries EXCEPT ![i].doc = doc]
  /\ UNCHANGED <<life, fw, nextId, today>>

\* The user or the firmware's own reaper deletes a shot: a tombstone is left.
RemoveShot(i) ==
  /\ Live(i) /\ ~entries[i].open
  /\ entries' = [entries EXCEPT ![i].deleted = TRUE]
  /\ UNCHANGED <<life, fw, nextId, today>>

\* The entry leaves the index altogether (a rebuilt index drops tombstones).
DropEntry(i) ==
  /\ entries[i] # NONE /\ ~entries[i].open
  /\ entries' = [entries EXCEPT ![i] = NONE]
  /\ UNCHANGED <<life, fw, nextId, today>>

\* The file system is recreated: the counter starts over, nothing survives.
Reset ==
  /\ life < MaxLife /\ IndexExists
  /\ life' = life + 1 /\ nextId' = 1
  /\ entries' = [i \in Ids |-> NONE]
  /\ UNCHANGED <<fw, today>>

FlashFirmware ==
  /\ \A i \in Ids : entries[i] # NONE => ~entries[i].open
  /\ \E f \in Firmware \ {fw} : fw' = f
  /\ UNCHANGED <<life, nextId, entries, today>>

\* Midnight.  A flush takes seconds and does not span days.
Tick ==
  /\ today < MaxDay
  /\ \A i \in Ids : entries[i] # NONE => ~entries[i].open
  /\ today' = today + 1
  /\ UNCHANGED <<life, fw, nextId, entries>>

DeviceTypeOK ==
  /\ life \in Nat /\ fw \in Firmware
  /\ nextId \in Nat \ {0} /\ nextId <= MaxShots + 1
  /\ entries \in [Ids -> Entry \cup {NONE}]
  /\ today \in 0..MaxDay

=============================================================================
