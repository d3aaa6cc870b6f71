-------------------------------- MODULE Tpwd --------------------------------
(***************************************************************************)
(* tpwd.c: prints the working directory, with a directory that a variable  *)
(* names replaced by the variable, and cut at its beginning.  It is        *)
(* replaced in place, in front of the rest of the path, and only if there  *)
(* is room.  Paths are sequences of characters.                            *)
(***************************************************************************)
EXTENDS Integers, SequencesExt

CONSTANTS
  Paths,       \* what the working directory may be called
  Values,      \* values of environment variables; <<>> is one that is missing, too
  Names,       \* names of variables in TPWD_DIRS, as sequences of characters
  MaxDirs,     \* bound: entries of TPWD_DIRS
  PathMax, PathLength,  \* sizes of getcwd's buffer: the first and the last one
  Lengths      \* <len> and <tlen>

Slash == "/"
Tilde == <<"~">>
Dot   == <<".">>

VARIABLES
  env,      \* values of the variables; of HOME under the name Tilde
  dirs, at, \* TPWD_DIRS (<<Tilde>> without it), and the entry looked at
  path,     \* what the directory is called, before anything is replaced
  capacity, pwd,
  out,      \* what was printed: whether <trunc>, and how much of pwd's end
  pc

vars == <<env, dirs, at, path, capacity, pwd, out, pc>>

Init ==
  /\ env \in [Names \cup {Tilde} -> Values]
  /\ dirs \in BoundedSeq(Names \cup {Tilde}, MaxDirs) /\ at = 1
  /\ path \in Paths /\ capacity = PathMax
  /\ pwd = <<>> /\ out = <<FALSE, 0>> /\ pc = "getpwd"

-----------------------------------------------------------------------------
(* getpwd: $PWD with -L, if it is the working directory; or getcwd, which  *)
(* wants room for the zero, and may fail for another reason.               *)
Found(name) == pwd' = name /\ path' = name /\ pc' = "shorten" /\ UNCHANGED capacity

Getpwd ==
  /\ pc = "getpwd"
  /\ IF Len(path) + 1 <= capacity THEN Found(path)
     ELSE IF capacity < PathLength THEN capacity' = 2 * capacity /\ UNCHANGED <<pwd, path, pc>>
     ELSE Found(Dot)
  /\ UNCHANGED <<env, dirs, at, out>>

GetpwdFails == pc = "getpwd" /\ Found(Dot) /\ UNCHANGED <<env, dirs, at, out>>

(* shorten_pwd: one entry of the list.                                     *)
Stripped(dir) ==
  LET kept == {n \in 1..Len(dir) : dir[n] # Slash}
  IN IF kept = {} THEN <<>> ELSE SubSeq(dir, 1, Max(kept))

VarLen(var) == IF var = Tilde THEN 0 ELSE Len(var)

Fits_NoBoundary(var) ==  \* mutant: /home/ab is in /home/a
  LET dir == Stripped(env[var])
  IN dir # <<>> /\ dir[1] = Slash /\ Len(dir) >= 1 + VarLen(var) /\ IsPrefix(dir, pwd)
Fits(var) ==
  LET dir == Stripped(env[var])
  IN /\ dir # <<>> /\ dir[1] = Slash
     /\ Len(dir) >= 1 + VarLen(var)
     /\ IsPrefix(dir, pwd)
     /\ Len(pwd) > Len(dir) => pwd[Len(dir) + 1] = Slash

(* The name is written over the end of the directory.                      *)
Replaced(var) ==
  LET rest == SubSeq(pwd, Len(Stripped(env[var])) + 1, Len(pwd))
  IN (IF var = Tilde THEN Tilde ELSE <<"$">> \o var) \o rest

Shorten ==
  /\ pc = "shorten"
  /\ IF at > Len(dirs) THEN pc' = "output" /\ UNCHANGED <<at, pwd>>
     ELSE IF Fits(dirs[at]) THEN pwd' = Replaced(dirs[at]) /\ pc' = "output" /\ UNCHANGED at
     ELSE at' = at + 1 /\ UNCHANGED <<pwd, pc>>
  /\ UNCHANGED <<env, dirs, path, capacity, out>>

(* output *)
Printed(max_len, trunc_str_len) ==
  IF max_len = 0 \/ Len(pwd) <= max_len THEN <<FALSE, Len(pwd)>>
  ELSE <<TRUE, IF trunc_str_len < max_len THEN max_len - trunc_str_len ELSE 0>>

Output(max_len, trunc_str_len) ==
  /\ pc = "output" /\ pc' = "done"
  /\ out' = Printed(max_len, trunc_str_len)
  /\ UNCHANGED <<env, dirs, at, path, capacity, pwd>>

Next == Getpwd \/ GetpwdFails \/ Shorten \/ \E len, tlen \in Lengths : Output(len, tlen)
Spec == Init /\ [][Next]_vars

-----------------------------------------------------------------------------
(* What a shell would make of a name that has been put in.                 *)
Expansions(name) ==
  LET rest(v) == SubSeq(name, VarLen(v) + 2, Len(name))
      putIn(v) == IF v = Tilde THEN Tilde ELSE <<"$">> \o v
        whole(v) == IsPrefix(putIn(v), name) /\ (rest(v) = <<>> \/ rest(v)[1] = Slash)
  IN {name} \cup {Stripped(env[v]) \o rest(v) : v \in {w \in Names \cup {Tilde} : whole(w)}}

(* What is printed in full, or cut at its beginning, names the directory   *)
(* for a shell: whatever the variables hold, only a whole directory is     *)
(* replaced, and the result is never longer than the path it is made of.   *)
NamesDirectory ==
  pc = "done" =>
    /\ path \in Expansions(pwd)
    /\ Len(pwd) <= Len(path)
    /\ out[2] <= Len(pwd) /\ (~out[1] => out[2] = Len(pwd))
=============================================================================
