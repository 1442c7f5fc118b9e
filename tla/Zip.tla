--------------------------------- MODULE Zip ---------------------------------
(***************************************************************************)
(* One run of a compression or decompression (core/zip/Zip.cxx, and the    *)
(* same loop in JavaScript, DynXX.js): read at most a buffer of input,     *)
(* hand it to zlib, take output until a call leaves room in the buffer,    *)
(* and stop after a read that was short.                                   *)
(*                                                                         *)
(* Bytes are counted, not compared.  zlib is known by what it may do: a    *)
(* chunk of input gives any number of bytes of output; they come a buffer  *)
(* at a time; deflate() may keep them back until the end and then always   *)
(* adds some; inflate() gives all it has, and nothing after its end.       *)
(***************************************************************************)
EXTENDS Integers

CONSTANTS MaxSize,    (* bound on the bytes of input                        *)
          MaxBuffer,  (* bound on the size of the buffer                    *)
          MaxGain     (* bound on the bytes of output of a chunk            *)

ASSUME ZipAssumption ==
  /\ MaxSize \in Nat
  /\ MaxBuffer \in Nat \ {0}
  /\ MaxGain \in Nat \ {0}

VARIABLES
  kind,      (* "zip" or "unzip"                                            *)
  via,       (* "stream", "file", "bytes" or "js"                           *)
  size,      (* the bytes of input there are                                *)
  archive,   (* unzip: where the archive ends; past size: it was cut        *)
  corrupt,   (* unzip: the archive is damaged                               *)
  buffer,    (* bufferSize                                                  *)
  pos,       (* the bytes that were read                                    *)
  lost,      (* of these, the ones that never reached zlib                  *)
  chunk,     (* a chunk that zlib has not begun                             *)
  finish,    (* the last read was short: inputFinished, inFinish            *)
  kept,      (* the bytes of output that zlib has not given                 *)
  given,     (* the bytes of output that the last chunk gave                *)
  output, written, (* bytes of output: given by zlib, arrived               *)
  step,      (* "read", "do" or "done"                                      *)
  result

zipVars == <<kind, via, size, archive, corrupt, buffer, pos, lost, chunk, finish, kept,
             given, output, written, step, result>>

Least(a, b) == IF a < b THEN a ELSE b

ZipBegins ==
  /\ pos = 0 /\ lost = 0 /\ chunk = 0 /\ finish = FALSE
  /\ kept = 0 /\ given = 0 /\ output = 0 /\ written = 0
  /\ step = "read" /\ result = "none"

ZipInit ==
  /\ kind \in {"zip", "unzip"}
  /\ via \in {"stream", "file", "bytes", "js"}
  /\ size \in 0 .. MaxSize
  /\ archive \in IF kind = "zip" THEN {size} ELSE 1 .. MaxSize + 1
  /\ corrupt \in IF kind = "zip" THEN {FALSE} ELSE BOOLEAN
  /\ buffer \in 1 .. MaxBuffer
  /\ ZipBegins

Result(r) == step' = "done" /\ result' = r
-----------------------------------------------------------------------------
(* A read that is the last: a short one. *)
(* The mistake of taking a full buffer for the last one. *)
LastIfFull(got) == got <= buffer
Last(got) == got < buffer

(* One read.  A stream or a file may fail in the middle; JavaScript drops the *)
(* zero bytes of what it reads.  Only the bytes of a vector come for certain. *)
Read ==
  /\ step = "read"
  /\ LET n == Least(buffer, size - pos)
     IN \E got \in (IF via = "bytes" THEN {n} ELSE 0 .. n) :
          /\ pos' = pos + n
          /\ lost' = lost + (n - got)
          /\ chunk' = got
          /\ finish' = Last(got)
          /\ given' = IF got = 0 THEN given ELSE 0
          /\ IF got = 0 THEN Result("false") ELSE step' = "do" /\ UNCHANGED result
  /\ UNCHANGED <<kind, via, size, archive, corrupt, buffer, kept, output, written>>

(* What zlib has once it has begun the chunk, and what it may give of it. *)
Ended == kind = "unzip" /\ pos - chunk >= archive
Gains == IF chunk = 0 \/ Ended THEN {0}
         ELSE IF kind = "zip" /\ finish THEN 1 .. MaxGain ELSE 0 .. MaxGain
Gives(has) == IF kind = "zip" /\ ~finish THEN 0 .. Least(buffer, has) ELSE {Least(buffer, has)}

(* One processDo(), and the write of what it gave: that may fail, which nobody *)
(* looks at.  An error of zlib, or nothing given, ends the run; so does a call *)
(* that leaves room in the buffer, after the last chunk.                       *)
Process ==
  /\ step = "do"
  /\ \E gain \in Gains :
       \E n \in Gives(kept + gain) :
         \E arrives \in (IF n = 0 \/ via = "bytes" THEN {n} ELSE {0, n}) :
           /\ kept' = kept + gain - n
           /\ given' = given + n
           /\ output' = output + n
           /\ written' = written + arrives
           /\ \/ n = 0 /\ Result("false")
              \/ n = buffer /\ UNCHANGED <<step, result>>
              \/ n \in 1 .. buffer - 1 /\ finish /\ Result("true")
              \/ n \in 1 .. buffer - 1 /\ ~finish /\ step' = "read" /\ UNCHANGED result
  /\ chunk' = 0
  /\ UNCHANGED <<kind, via, size, archive, corrupt, buffer, pos, lost, finish>>

Damaged ==
  /\ step = "do" /\ corrupt
  /\ Result("false")
  /\ UNCHANGED <<kind, via, size, archive, corrupt, buffer, pos, lost, chunk, finish, kept,
                 given, output, written>>

ZipNext == Read \/ Process \/ Damaged
-----------------------------------------------------------------------------
(* A run that returns true has read its whole input, and all of its output    *)
(* has arrived, but: when a read failed or dropped bytes, when an archive was *)
(* cut short, or when a write failed.  A run that returns false met the       *)
(* bounds of the loop: the input that arrived fills the last buffer (or is    *)
(* empty), or the output of the last chunk that zlib was given fills its last *)
(* buffer, or is empty (an error; what follows the end of an archive; what    *)
(* deflate() keeps back).  It may all have been written then (Zip.cxx:32-62,  *)
(* DynXX.js:579-610).                                                         *)
TrueWhenDone ==
  result = "true" =>
    /\ pos = size \/ lost > 0
    /\ kept = 0
    /\ output = written \/ via # "bytes"
    /\ kind = "unzip" => pos >= archive \/ archive > size \/ lost > 0
FalseExplained ==
  result = "false" => (pos - lost) % buffer = 0 \/ given % buffer = 0
ZipTells == TrueWhenDone /\ FalseExplained
=============================================================================
