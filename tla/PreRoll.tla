------------------------------- MODULE PreRoll -------------------------------
(***************************************************************************)
(* The recorder's rolling pre-roll buffer (plugins/store/store.cpp,        *)
(* buffer_append): the packets an event clip starts with.  Only operators; *)
(* the buffer is a sequence of packets [n |-> number of arrival,           *)
(* pts |-> seconds, kind |-> "key", "delta" (video) or "audio"].           *)
(***************************************************************************)
EXTENDS Integers, Sequences, FiniteSetsExt

CONSTANTS PreRollSec,       \* pre_roll_sec
          MaxBufferConfig   \* max_buffer_sec as configured

ASSUME PreRollAssumption == PreRollSec \in Nat /\ MaxBufferConfig \in Nat

(* handle_start: a cap below the pre-roll is replaced. *)
MaxBufferSec == IF MaxBufferConfig < PreRollSec THEN PreRollSec + 2 ELSE MaxBufferConfig

(* The pre-roll and two seconds, at most the cap, at least one second. *)
WindowSec == LET w == Min({PreRollSec + 2, MaxBufferSec}) IN IF w < 1 THEN 1 ELSE w

IsKey(packet) == packet.kind = "key"

(* How many packets the aligned trim drops: all before the last video keyframe of    *)
(* the leading packets that are not newer than the cutoff.                           *)
BeforeOldKey(buf, cutoff) ==
    LET newer == {i \in 1..Len(buf) : buf[i].pts > cutoff}
        leading == 1 .. (IF newer = {} THEN Len(buf) ELSE Min(newer) - 1)
        keys == {i \in leading : IsKey(buf[i])}
    IN IF keys = {} THEN 0 ELSE Max(keys) - 1

(* Mutation: no hard trim. *)
NoHardTrim(buf, hardCutoff) == 0

(* How many packets the hard trim drops: from the front while it is older than the   *)
(* cap and a keyframe is still ahead of it.                                          *)
HardTrim(buf, hardCutoff) ==
    Min({d \in 0..Len(buf) : \/ d + 1 >= Len(buf)
                             \/ buf[d + 1].pts >= hardCutoff
                             \/ \A i \in d + 2..Len(buf) : ~IsKey(buf[i])})

DropFirst(buf, d) == SubSeq(buf, d + 1, Len(buf))

(* buffer_append *)
BufferAppend(buf, packet) ==
    LET all == Append(buf, packet)
        aligned == DropFirst(all, BeforeOldKey(all, packet.pts - WindowSec))
    IN DropFirst(aligned, HardTrim(aligned, packet.pts - MaxBufferSec))
==============================================================================
