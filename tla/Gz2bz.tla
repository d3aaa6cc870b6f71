------------------------------- MODULE Gz2bz --------------------------------
(***************************************************************************)
(* gz2bz: converts the files given, one after the other, from gzip to      *)
(* another format, and removes the originals.  With -k the data go through *)
(* a file that is kept, without through a pipe.  The programs it runs may  *)
(* fail, and it may be killed between any two steps: what is on the disk   *)
(* must always be enough.  Two names may lead to one: a.tgz and a.tar.gz   *)
(* both become a.tar.bz2.                                                  *)
(***************************************************************************)
EXTENDS Integers, Sequences, SequencesExt

CONSTANT Arguments  \* the sequences of names it may be called with

(* A name is its stem, as of a.tar, and its extension.                     *)
Name == [stem : {"a", "b"}, ext : {"tgz", "gz", "none", "bz2"}]

VARIABLES
  keep, keepOrig, keepSmaller, overwrite,  \* the options
  args, at, pc,  \* the files, the one in hand, and where the loop is
  disk,          \* what is in a file: whose data, and all of them?
  forgone        \* files whose data were given up: see OriginalKept

opts == <<keep, keepOrig, keepSmaller, overwrite, args>>
vars == <<opts, at, pc, disk, forgone>>

Data(name, whole) == [of |-> name, whole |-> whole]
Nobody == [stem |-> "", ext |-> ""]
None   == Data(Nobody, FALSE)
Empty  == Data(Nobody, TRUE)
Exists(name) == disk[name] # None

(* The data of a name are in it, be it damaged, or whole in another one.   *)
Copies(name) == {n \in Name : disk[n].of = name /\ (n = name \/ disk[n].whole)}

Init ==
  /\ keep \in BOOLEAN /\ keepOrig \in BOOLEAN /\ keepSmaller \in BOOLEAN
  /\ overwrite \in {"y", "i", "n"}
  /\ args \in Arguments /\ at = 1 /\ pc = "file" /\ forgone = {}
  /\ \E damaged \in SUBSET ToSet(args) :
       disk = [n \in Name |-> IF n \in ToSet(args) THEN Data(n, n \notin damaged) ELSE None]

file   == args[at]
output == [file EXCEPT !.ext = "none"]
output_compressed == [file EXCEPT !.ext = "bz2"]

Written(name, data) == disk' = [disk EXCEPT ![name] = data]
Removed(name) == Written(name, None)
Goto(label) == pc' = label /\ UNCHANGED at
Continue == pc' = "file" /\ at' = at + 1

-----------------------------------------------------------------------------
(* overwrite(): whether a file may be overwritten.  That is the default,   *)
(* unless the user is to be asked, or it is never to be done.              *)
Asked_NotAtAll(name) == {TRUE}  \* mutant
Asked(name) ==
  CASE ~Exists(name) \/ overwrite = "y" -> {TRUE}
    [] overwrite = "n" -> {FALSE}
    [] OTHER -> BOOLEAN

Overwrite(name, label) ==
  /\ \E may \in Asked(name) : IF may THEN Goto(label) ELSE Continue
  /\ UNCHANGED <<opts, disk, forgone>>

NextFile ==
  /\ pc = "file" /\ at <= Len(args)
  /\ \/ file.ext \in {"gz", "tgz"} /\ Overwrite(output_compressed, IF keep THEN "plain" ELSE "pipe")
     \/ file.ext \notin {"gz", "tgz"} /\ Continue  \* "invalid extension, skipping"
        /\ UNCHANGED <<opts, disk, forgone>>

OverwritePlain == pc = "plain" /\ Overwrite(output, "decompress")

(* The shell empties the file that is written before the program runs.     *)
GivenUp(name) == {n \in ToSet(args) : overwrite # "n" /\ Copies(n) = {name}}
Opens(name, label) ==
  /\ Written(name, Empty) /\ Goto(label)
  /\ forgone' = forgone \cup GivenUp(name)
  /\ UNCHANGED opts

Open ==
  \/ pc = "decompress" /\ Opens(output, "decompressing")
  \/ pc = "compress" /\ Opens(output_compressed, "compressing")
  \/ pc = "pipe" /\ Opens(output_compressed, "piping")

(* $decompress <"$file" >"$output": its exit status is looked at.          *)
Decompress ==
  /\ pc = "decompressing"
  /\ \/ disk[file].whole /\ Written(output, disk[file]) /\ Goto("compress")
     \/ Removed(output) /\ Continue  \* "failed"
  /\ UNCHANGED <<opts, forgone>>

(* $compress <"$output" >"$output_compressed"                              *)
Compress ==
  /\ pc = "compressing"
  /\ \/ Written(output_compressed, disk[output]) /\ Goto("ok")
     \/ Removed(output_compressed) /\ Goto("failed")
  /\ UNCHANGED <<opts, forgone>>

(* $decompress <"$file" | $compress >"$output_compressed": a pipe has the  *)
(* exit status of its last program.  When the first one fails the second   *)
(* makes a proper file of the part that it has been given, which of a file *)
(* that is not there any more is nothing.                                  *)
Part(data) == IF data.of = Nobody THEN Empty ELSE [data EXCEPT !.whole = FALSE]

Convert ==
  /\ pc = "piping"
  /\ \/ disk[file].whole /\ Written(output_compressed, disk[file]) /\ Goto("ok") /\ UNCHANGED forgone
     \/ Written(output_compressed, Part(disk[file])) /\ Goto("ok")
        /\ forgone' = IF keepOrig THEN forgone ELSE forgone \cup {disk[file].of}
     \/ Removed(output_compressed) /\ Goto("failed") /\ UNCHANGED forgone
  /\ UNCHANGED opts

(* With -s the recompressed file goes if it is no smaller.                 *)
Finish ==
  /\ pc \in {"ok", "failed"}
  /\ IF pc = "failed" THEN UNCHANGED disk
     ELSE \E smaller \in BOOLEAN :
            IF keepSmaller /\ ~smaller THEN Removed(output_compressed)
            ELSE IF keepOrig THEN UNCHANGED disk ELSE Removed(file)
  /\ Continue
  /\ UNCHANGED <<opts, forgone>>

Next == NextFile \/ OverwritePlain \/ Open \/ Decompress \/ Compress \/ Convert \/ Finish
Spec == Init /\ [][Next]_vars

-----------------------------------------------------------------------------
(* The data of every file are on the disk at any moment, in itself or, all *)
(* of them, decompressed or recompressed, whichever program fails and      *)
(* whatever other file has the same target.  Given up are data of which    *)
(* the only copy was overwritten though not --never-overwrite was asked    *)
(* for, and data whose decompressor has failed in front of a pipe, which   *)
(* nobody notices.                                                         *)
OriginalKept == \A n \in ToSet(args) : Copies(n) # {} \/ n \in forgone
=============================================================================
