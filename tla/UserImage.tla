------------------------------ MODULE UserImage ------------------------------
(***************************************************************************)
(* How a program gets into memory: execve and the first process.           *)
(*   - task/src/vfs_shim.rs reads the file, in chunks, while other         *)
(*     processes may write to it;                                          *)
(*   - task/src/elf.rs maps the segments page by page, then the stack;     *)
(*   - task/src/arch adds what the architecture needs in every user space  *)
(*     and knows the relocation entries;                                   *)
(*   - task/src/resource.rs (UserStack, AuxVec) pushes what the C runtime  *)
(*     of the program reads first;                                         *)
(*   - task/src/task.rs (do_execve, from_elf) puts the parts together.     *)
(*                                                                         *)
(* The unit of addresses and lengths is one word of the stack.  Word n of  *)
(* a file contains n + 1, fresh memory contains 0.                         *)
(***************************************************************************)
EXTENDS Integers, Sequences, FiniteSets, SequencesExt

CONSTANTS
  Nil,
  FRAME_SIZE, \* in words
  CHUNK,     \* the 1024 bytes of the read buffer, in words
  BIAS,      \* ELF_BASE_RELOCATE
  Space,     \* bound: addresses of the image, of which the segments use no more
  ElfKeys, StackKeys, \* keys of the auxiliary vector: from_elf_info, and push_aux_vec
  MaxEdits,  \* bound: how often the file changes while it is read
  Libc,      \* the file libc.so
  Exes       \* bound: the program files and the calls, see exe

Rights == {"r", "w", "x"}
Addrs == 0..(Space - 1)
ImagePages == {a \in Addrs : a % FRAME_SIZE = 0}
FrameDown(a) == a - (a % FRAME_SIZE)
FrameUp(a) == FrameDown(a + FRAME_SIZE - 1)

\* a program header of type Load: offset in the file, address, sizes and flags
Segment == [offset : Nat, start : Nat, filesz : Nat, memsz : Nat, perm : SUBSET Rights]
\* a relocation entry: its type, where it applies, its addend and the value of its symbol,
\* Nil when the symbol is not defined in this file
Entry == [kind : {"abs", "got", "plt", "relative", "other"}, at : Nat, add : Nat, sym : Nat \cup {Nil}]
\* dyn and plt: the entries of .rela.dyn and .rela.plt, Nil when there is no such section
File == [len : Nat, typ : {"exec", "dyn", "rel"}, interp : BOOLEAN, x : BOOLEAN, segs : Seq(Segment),
         dyn : Seq(Entry) \cup {Nil}, plt : Seq(Entry) \cup {Nil}]

Fits(f) == \A i \in DOMAIN f.segs : BIAS + f.segs[i].start + f.segs[i].memsz <= Space

\* A string takes a word at least, for its end.  The kernel core and the per-CPU mirror are stretches
\* of several pages.
ASSUME UserImageAssumption ==
  /\ FRAME_SIZE \in Nat \ {0} /\ CHUNK \in Nat \ {0} /\ BIAS \in Nat \ {0} /\ BIAS % FRAME_SIZE = 0
  /\ Space \in Nat /\ Space % FRAME_SIZE = 0
  /\ ElfKeys \cup StackKeys \subseteq Nat \ {0} /\ IsFiniteSet(ElfKeys \cup StackKeys) /\ Cardinality(StackKeys) = 3
  /\ MaxEdits \in Nat
  /\ Nil \notin Nat \cup {"ok", "panic", "panic_read", "error", "nospace"} /\ \A R \in SUBSET Rights : R # Nil
  /\ Libc.typ = "dyn" /\ ~Libc.interp /\ Libc \in File /\ Fits(Libc)
  /\ \A e \in Exes : /\ e.file \in File /\ Fits(e.file) /\ {e.call.argv, e.call.envp} \subseteq Seq(Nat \ {0})
                     /\ e.call.stack \in Nat \ {0} /\ e.call.first \in BOOLEAN /\ e.call.opens \subseteq {"prog", "libc"}
                     /\ e.arch \in {"riscv64", "x86_64"} /\ e.core \subseteq ImagePages
                     /\ e.core # {} => e.arch = "x86_64"
                     /\ \A p \in e.core : \E q \in e.core :
                          LET three == {q, q + FRAME_SIZE, q + 2 * FRAME_SIZE} IN p \in three /\ three \subseteq e.core

VARIABLES
  exe,       \* never changes: file, the program; call.argv and call.envp, the lengths of the
             \* strings in words; call.stack, USER_STACK_SIZE in words; call.first, whether this
             \* is from_elf, not execve; call.opens, which of the program and of libc.so, looked
             \* up from the working directory, can be opened; arch, and core, the pages of the kernel core and of
             \* the per-CPU mirror that have a physical address and are mapped on x86_64
  phase,     \* where the call is
  cur,       \* the file being read: "prog" or "libc"
  flen,      \* the length of that file now
  edits,     \* bound: changes of it so far
  size, offset,  \* st_size, and how much read_all_inner has read
  seg, page, \* the segment and the page load_to_vm_space is at
  mem, perm, \* contents of the mapped words and rights of the mapped pages, Nil elsewhere
  brk,       \* break_addr
  low,       \* user_stack_low, 0 before the stack is mapped
  argv,      \* the strings to push for argv: <<name, words>>
  stack,     \* the words pushed so far, from the top down
  ptrs,      \* addresses of the strings: depth in the stack
  item,      \* how many strings, pointers or pairs of this phase are pushed
  image,     \* what the address space of the task is: "old" or "new"
  result     \* Nil, "ok", "error", "nospace"; "panic" and "panic_read" for a panic

fileVars == <<cur, flen, edits, size, offset>>
loadVars == <<seg, page, mem, perm, brk, low>>
stackVars == <<stack, ptrs, item>>
imageVars == <<exe, phase, fileVars, loadVars, argv, stackVars, image, result>>

Strings(tag, lens) == [i \in DOMAIN lens |-> <<tag, i, lens[i]>>]

ImageInit ==
  /\ exe \in Exes
  /\ phase = "open" /\ cur = "prog" /\ flen = exe.file.len /\ edits = 0 /\ size = 0 /\ offset = 0
  /\ seg = 1 /\ page = Nil /\ mem = [a \in Addrs |-> Nil] /\ perm = [a \in ImagePages |-> Nil]
  /\ brk = 0 /\ low = 0 /\ argv = Strings("arg", exe.call.argv)
  /\ stack = <<>> /\ ptrs = [argv |-> <<>>, envp |-> <<>>] /\ item = 0
  /\ image = "old" /\ result = Nil

Finish(r) ==
  /\ phase' = "done" /\ result' = r
  /\ UNCHANGED <<exe, fileVars, loadVars, argv, stackVars, image>>

Go(p) == phase' = p /\ UNCHANGED <<exe, result>>

-----------------------------------------------------------------------------
(* Reading the file                                                         *)

Elf == IF cur = "prog" THEN exe.file ELSE Libc

\* read_all returns false for the interpreter, and build_vm_space panics
ReadFails == Finish(IF cur = "libc" THEN "panic_read" ELSE "error")

\* read_all_inner up to the size: vfs_open and getattr, and the program must be executable
Open ==
  /\ phase = "open"
  /\ \/ cur \notin exe.call.opens /\ ReadFails
     \/ cur = "prog" /\ ~exe.call.first /\ ~exe.file.x /\ ReadFails
     \/ /\ cur \in exe.call.opens
        /\ cur = "libc" \/ exe.call.first \/ exe.file.x
        /\ size' = flen /\ offset' = 0 /\ Go("read")
        /\ UNCHANGED <<cur, flen, edits, loadVars, argv, stackVars, image>>

\* mutant: nothing read is not an error
Read_Again ==
  LET n == IF offset >= flen THEN 0 ELSE IF flen - offset < CHUNK THEN flen - offset ELSE CHUNK
  IN  /\ phase = "read"
      /\ \/ /\ offset < size
            /\ offset' = offset + n /\ Go("read")
            /\ UNCHANGED <<cur, flen, edits, size, loadVars, argv, stackVars, image>>
         \/ offset > size /\ Finish("panic_read")
         \/ /\ offset = size /\ Go("parse")
            /\ UNCHANGED <<fileVars, loadVars, argv, stackVars, image>>

\* mutant: one more read after the last byte
Read_Past ==
  LET n == IF offset >= flen THEN 0 ELSE IF flen - offset < CHUNK THEN flen - offset ELSE CHUNK
  IN  /\ phase = "read"
      /\ \/ offset <= size /\ n = 0 /\ Finish("panic_read")
         \/ /\ offset < size /\ n > 0
            /\ offset' = offset + n /\ Go("read")
            /\ UNCHANGED <<cur, flen, edits, size, loadVars, argv, stackVars, image>>
         \/ /\ offset = size /\ Go("parse")
            /\ UNCHANGED <<fileVars, loadVars, argv, stackVars, image>>

\* the read loop of read_all_inner: a chunk, EIO when nothing comes, and after the loop
\* assert_eq!(offset, size)
Read ==
  LET n == IF offset >= flen THEN 0 ELSE IF flen - offset < CHUNK THEN flen - offset ELSE CHUNK
  IN  /\ phase = "read"
      /\ \/ offset < size /\ n = 0 /\ ReadFails
         \/ /\ offset < size /\ n > 0
            /\ offset' = offset + n /\ Go("read")
            /\ UNCHANGED <<cur, flen, edits, size, loadVars, argv, stackVars, image>>
         \/ offset > size /\ Finish("panic_read")
         \/ /\ offset = size /\ Go("parse")
            /\ UNCHANGED <<fileVars, loadVars, argv, stackVars, image>>

\* another process appends to the file or truncates it
Edit ==
  /\ phase \in {"open", "read"} /\ edits < MaxEdits
  /\ flen' \in {flen + 1, 0} /\ edits' = edits + 1
  /\ UNCHANGED <<exe, phase, cur, size, offset, loadVars, argv, stackVars, image, result>>

-----------------------------------------------------------------------------
(* build_vm_space and load_to_vm_space                                      *)

\* calculate_bias for a file without interpreter
Bias == IF Elf.typ = "dyn" THEN BIAS ELSE 0

\* mutant: the new image is put in place before it is complete
Parse_Commit ==
  /\ phase = "parse" /\ image' = "new"
  /\ phase' = IF Elf.typ = "rel" \/ size = 0 THEN "done" ELSE "load"
  /\ result' = IF Elf.typ = "rel" \/ size = 0 THEN "error" ELSE Nil
  /\ UNCHANGED <<exe, fileVars, loadVars, argv, stackVars>>

\* the head of build_vm_space: a program that names an interpreter is replaced by libc.so,
\* which gets it as an argument
Parse ==
  /\ phase = "parse"
  /\ \/ size = 0 /\ Finish("error")
     \/ /\ size > 0 /\ Elf.interp
        /\ argv' = <<<<"libc", 1, 1>>>> \o argv
        /\ cur' = "libc" /\ flen' = Libc.len /\ edits' = 0 /\ size' = 0 /\ offset' = 0 /\ Go("open")
        /\ UNCHANGED <<loadVars, stackVars, image>>
     \/ size > 0 /\ ~Elf.interp /\ Elf.typ = "rel" /\ Finish("error")
     \/ /\ size > 0 /\ ~Elf.interp /\ Elf.typ # "rel" /\ Go("load")
        /\ UNCHANGED <<fileVars, loadVars, argv, stackVars, image>>

Segs == Elf.segs
Start(s) == s.start + Bias

\* a segment whose sizes do not fit, or whose data is not in the file, is refused
Refuse ==
  /\ phase = "load" /\ seg <= Len(Segs) /\ page = Nil
  /\ LET s == Segs[seg] IN s.filesz > s.memsz \/ s.offset + s.filesz > size
  /\ Finish("error")

\* the pages of a segment begin
Begin ==
  /\ phase = "load" /\ seg <= Len(Segs) /\ page = Nil
  /\ LET s == Segs[seg]
     IN  /\ s.filesz <= s.memsz /\ s.offset + s.filesz <= size
         /\ page' = FrameDown(Start(s))
         /\ brk' = IF Start(s) + s.memsz > brk THEN Start(s) + s.memsz ELSE brk
  /\ Go("load") /\ UNCHANGED <<fileVars, seg, mem, perm, low, argv, stackVars, image>>

\* what one turn of the page loop copies: from the later of page and segment start
Copied(s, p) ==
  {a \in p .. (p + FRAME_SIZE - 1) : a >= Start(s) /\ a < Start(s) + s.filesz}

\* mutant: a page that is there already keeps its rights
LoadPage_KeepRights ==
  /\ phase = "load" /\ page # Nil /\ seg <= Len(Segs)
  /\ LET s == Segs[seg]
     IN  /\ page < FrameUp(Start(s) + s.memsz)
         /\ perm' = [perm EXCEPT ![page] = IF @ = Nil THEN s.perm ELSE @]
         /\ mem' = [a \in Addrs |->
                      IF a \in Copied(s, page) THEN s.offset + (a - Start(s)) + 1
                      ELSE IF a \in page .. (page + FRAME_SIZE - 1) /\ mem[a] = Nil THEN 0 ELSE mem[a]]
         /\ page' = page + FRAME_SIZE
  /\ Go("load") /\ UNCHANGED <<fileVars, seg, brk, low, argv, stackVars, image>>

\* a page: mapped with the rights of the segment, or, when an earlier segment shares it,
\* given the rights of both; then its part of the data is copied
LoadPage ==
  /\ phase = "load" /\ page # Nil /\ seg <= Len(Segs)
  /\ LET s == Segs[seg]
     IN  /\ page < FrameUp(Start(s) + s.memsz)
         /\ perm' = [perm EXCEPT ![page] = IF @ = Nil THEN s.perm ELSE @ \cup s.perm]
         /\ mem' = [a \in Addrs |->
                      IF a \in Copied(s, page) THEN s.offset + (a - Start(s)) + 1
                      ELSE IF a \in page .. (page + FRAME_SIZE - 1) /\ mem[a] = Nil THEN 0 ELSE mem[a]]
         /\ page' = page + FRAME_SIZE
  /\ Go("load") /\ UNCHANGED <<fileVars, seg, brk, low, argv, stackVars, image>>

\* mutant: a segment is skipped
NextSegment_Skip ==
  /\ phase = "load" /\ page # Nil /\ page >= FrameUp(Start(Segs[seg]) + Segs[seg].memsz)
  /\ seg' = seg + 2 /\ page' = Nil
  /\ Go("load") /\ UNCHANGED <<fileVars, mem, perm, brk, low, argv, stackVars, image>>

\* the end of a segment
NextSegment ==
  /\ phase = "load" /\ page # Nil /\ page >= FrameUp(Start(Segs[seg]) + Segs[seg].memsz)
  /\ seg' = seg + 1 /\ page' = Nil
  /\ Go("load") /\ UNCHANGED <<fileVars, mem, perm, brk, low, argv, stackVars, image>>

\* mutant: the stack begins at the next page
StackLow_NoGuard == FrameUp(brk)

\* the stack lies above the program, with a page in between that is not mapped
StackLow == FrameUp(brk + FRAME_SIZE) + FRAME_SIZE

\* relocate_dyn of arch/riscv64.rs: the word an entry of .rela.dyn writes; Nil: it panics
riscv64_relocate_dyn(e) ==
  IF e.kind = "relative" THEN Bias + e.add
  ELSE IF e.kind = "abs" /\ e.sym # Nil THEN Bias + e.sym + e.add ELSE Nil

\* arch/x86_64.rs knows two more types
x86_64_relocate_dyn(e) ==
  IF e.kind = "relative" THEN Bias + e.add
  ELSE IF e.kind \in {"abs", "got", "plt"} /\ e.sym # Nil THEN Bias + e.sym + e.add ELSE Nil

\* relocate_plt of either: the addend is not looked at
relocate_plt(e) == IF e.kind = "plt" /\ e.sym # Nil THEN Bias + e.sym ELSE Nil

\* the writes of both, in order, for a file that was moved; no .rela.plt is no error
Relocations ==
  LET word(e) == IF exe.arch = "riscv64" THEN riscv64_relocate_dyn(e) ELSE x86_64_relocate_dyn(e)
      dyn == [i \in DOMAIN Elf.dyn |-> [at |-> Elf.dyn[i].at + Bias, word |-> word(Elf.dyn[i])]]
      plt == IF Elf.plt = Nil THEN <<>>
             ELSE [i \in DOMAIN Elf.plt |-> [at |-> Elf.plt[i].at + Bias, word |-> relocate_plt(Elf.plt[i])]]
  IN  IF Bias = 0 THEN <<>> ELSE dyn \o plt

\* the stack is mapped next, then, on x86_64, the kernel core without rights of the user
StackPages == {p \in ImagePages : p >= StackLow /\ p < FrameUp(StackLow + exe.call.stack)}
Taken == {p \in ImagePages : perm[p] # Nil} \cup StackPages

\* mutant: what is mapped already is replaced
map_extra_user_regions_Over ==
  /\ perm' = [p \in ImagePages |-> IF p \in exe.core THEN {} ELSE perm[p]]
  /\ result' = Nil

\* the pages of the core are refused when one of them is mapped already
map_extra_user_regions ==
  IF exe.core \cap Taken # {} THEN perm' = perm /\ result' = "error"
  ELSE perm' = [p \in ImagePages |-> IF p \in exe.core THEN {} ELSE perm[p]] /\ result' = Nil

\* a moved file without .rela.dyn, an entry that is not known and a word that is not mapped
\* are panics
RelocationFails ==
  IF Bias # 0 /\ Elf.dyn = Nil THEN TRUE
  ELSE \E i \in DOMAIN Relocations : LET w == Relocations[i] IN
         w.word = Nil \/ w.at \notin Addrs \/ FrameDown(w.at) \notin Taken \cup exe.core

\* the program after the writes, the last one counts; words outside the program are not kept
Relocate ==
  [a \in Addrs |-> LET I == {i \in DOMAIN Relocations : Relocations[i].at = a}
                   IN  IF I = {} \/ mem[a] = Nil THEN mem[a]
                       ELSE Relocations[CHOOSE i \in I : \A j \in I : j <= i].word]

MapStack ==
  /\ phase = "load" /\ page = Nil /\ seg > Len(Segs)
  /\ map_extra_user_regions
  /\ \/ result' = "error" /\ phase' = "done" /\ UNCHANGED <<low, mem>>
     \/ /\ result' = Nil /\ ~RelocationFails
        /\ low' = StackLow /\ mem' = Relocate /\ phase' = "commit"
  /\ UNCHANGED <<exe, fileVars, seg, page, brk, argv, stackVars, image>>

MapStackPanics ==
  /\ phase = "load" /\ page = Nil /\ seg > Len(Segs)
  /\ exe.core \cap Taken = {} /\ RelocationFails /\ Finish("panic")

-----------------------------------------------------------------------------
(* The stack                                                                *)

\* do_execve replaces the address space and then builds the stack
Commit ==
  /\ phase = "commit" /\ ~exe.call.first /\ image' = "new" /\ Go("envp")
  /\ UNCHANGED <<fileVars, loadVars, argv, stackVars>>

\* from_elf puts the image in a new task, to which it gives neither arguments nor environment
CommitFirst ==
  /\ phase = "commit" /\ exe.call.first /\ image' = "new" /\ Go("envp")
  /\ argv' = <<>>
  /\ UNCHANGED <<fileVars, loadVars, stackVars>>

\* one list of strings, integers or pairs after the other: UserStack::init
After == [envp |-> "argv", argv |-> "aux", aux |-> "auxv", auxv |-> "nul1", nul1 |-> "envptr",
          envptr |-> "nul2", nul2 |-> "argptr", argptr |-> "argc"]
Turn(p, n) == phase' = p /\ item' = n /\ UNCHANGED <<exe, fileVars, loadVars, argv, image>>
NextPhase == Turn(After[phase], 0) /\ UNCHANGED <<stack, ptrs, result>>

Words(v, n) == [i \in 1..n |-> v]

\* mutant: a string is written without looking at the size of the stack
push_bytes_Unchecked(v, n) == stack' = stack \o Words(v, n) /\ result' = Nil

\* push_bytes: pos moves first, then it is compared with the lower end
push_bytes(v, n) ==
  IF Len(stack) + n > exe.call.stack THEN stack' = stack /\ result' = "nospace"
  ELSE stack' = stack \o Words(v, n) /\ result' = Nil

\* mutant: the lowest word of the stack is not used
push_u64_Short(v) ==
  IF Len(stack) + 1 >= exe.call.stack THEN stack' = stack /\ result' = "nospace"
  ELSE stack' = Append(stack, v) /\ result' = Nil

\* push_u64: pos is compared first and moves then, so one word below the end is tried,
\* which is in no page
push_u64(v) ==
  IF Len(stack) > exe.call.stack THEN stack' = stack /\ result' = "nospace"
  ELSE /\ stack' = Append(stack, v)
       /\ result' = IF Len(stack) + 1 > exe.call.stack THEN "panic" ELSE Nil

\* a push ends the call, or the phase goes on with its next item
Pushed(n) == Turn(IF result' = Nil THEN phase ELSE "done", n)

\* push_argv and push_envp, from the last string to the first; the string with its length
PushString(list, p) ==
  LET i == Len(list) - item
  IN  /\ phase = p
      /\ \/ i = 0 /\ NextPhase
         \/ /\ i > 0
            /\ push_bytes(list[i], list[i][3])
            /\ ptrs' = IF result' = Nil THEN [ptrs EXCEPT ![p] = Append(@, Len(stack'))] ELSE ptrs
            /\ Pushed(item + 1)

\* push_aux_vec: random bytes and padding, platform, path, then the end of the vector
Aux ==
  /\ phase = "aux" /\ UNCHANGED ptrs
  /\ \/ item = 0 /\ push_bytes("random", 3) /\ Pushed(1)
     \/ item = 1 /\ push_bytes("platform", 1) /\ Pushed(2)
     \/ item = 2 /\ push_bytes("path", 1) /\ Pushed(3)
     \/ item = 3 /\ push_u64(0) /\ Pushed(4)
     \/ item = 4 /\ NextPhase

\* the keys of the table: from_elf starts from an empty one
KeySet == IF exe.call.first THEN StackKeys ELSE ElfKeys \cup StackKeys
\* ascending
Keys == [i \in 1..Cardinality(KeySet) |-> CHOOSE k \in KeySet : Cardinality({x \in KeySet : x <= k}) = i]

\* the pairs of the vector: the value, then the key
Auxv ==
  /\ phase = "auxv" /\ UNCHANGED ptrs
  /\ \/ item = 2 * Len(Keys) /\ NextPhase
     \/ /\ item < 2 * Len(Keys)
        /\ LET k == Keys[item \div 2 + 1]
           IN  push_u64(IF item % 2 = 0 THEN <<"value", k>> ELSE k)
        /\ Pushed(item + 1)

\* push_u64(0) between the lists
Nul ==
  /\ phase \in {"nul1", "nul2"} /\ UNCHANGED ptrs
  /\ \/ item = 0 /\ push_u64(0) /\ Pushed(1)
     \/ item = 1 /\ NextPhase

\* mutant: the pointers are pushed from the last to the first
PushPointers_Reversed(list, p) ==
  /\ phase = p /\ UNCHANGED ptrs
  /\ \/ item = Len(list) /\ NextPhase
     \/ item < Len(list) /\ push_u64(list[Len(list) - item]) /\ Pushed(item + 1)

\* push_vec_u64 of the addresses of the strings
PushPointers(list, p) ==
  /\ phase = p /\ UNCHANGED ptrs
  /\ \/ item = Len(list) /\ NextPhase
     \/ item < Len(list) /\ push_u64(list[item + 1]) /\ Pushed(item + 1)

\* the number of arguments; the stack pointer of the program is where it lies
Argc ==
  /\ phase = "argc" /\ UNCHANGED ptrs
  /\ \/ item = 0 /\ push_u64(Len(argv)) /\ Pushed(1)
     \/ item = 1 /\ stack' = stack /\ result' = "ok" /\ Turn("done", 0)

Done == phase = "done" /\ UNCHANGED imageVars

Step ==
  \/ Open \/ Read \/ Parse \/ Refuse \/ Begin \/ LoadPage \/ NextSegment \/ MapStack \/ MapStackPanics \/ Commit
  \/ CommitFirst
  \/ PushString(Strings("env", exe.call.envp), "envp") \/ PushString(argv, "argv")
  \/ Aux \/ Auxv \/ Nul \/ PushPointers(ptrs.envp, "envptr") \/ PushPointers(ptrs.argv, "argptr")
  \/ Argc
ImageNext == Step \/ Edit \/ Done

\* the task goes on with its call, the file need not change
ImageSpec == ImageInit /\ [][ImageNext]_imageVars /\ WF_imageVars(Step)

-----------------------------------------------------------------------------
(* Properties                                                               *)

\* Every variable has its type.
ImageTypeOK ==
  /\ phase \in {"open", "read", "parse", "load", "commit", "done", "argc"} \cup DOMAIN After
  /\ cur \in {"prog", "libc"} /\ {flen, size, offset, brk, low, item} \subseteq Nat /\ edits \in 0..MaxEdits
  /\ seg \in 1..(Len(Segs) + 1) /\ page \in Nat \cup {Nil}
  /\ mem \in [Addrs -> Nat \cup {Nil}] /\ perm \in [ImagePages -> (SUBSET Rights) \cup {Nil}]
  /\ image \in {"old", "new"} /\ result \in {Nil, "ok", "panic", "panic_read", "error", "nospace"}

Loaded == phase \notin {"open", "read", "parse", "load"} /\ low > 0

\* the entries of both tables
Entries == IF Bias = 0 THEN <<>> ELSE Elf.dyn \o (IF Elf.plt = Nil THEN <<>> ELSE Elf.plt)

\* What load_to_vm_space returned is the program: every word of every segment holds the
\* word of the file that the last segment covering it names, or the relocated value, words that only the memory
\* size covers are 0, and each page has all the rights of every segment on it, on x86_64 too,
\* where the kernel core is mapped after the program.  (.rela.plt entries are symbols alone.)
ImageIsLoaded ==
  Loaded =>
    \A k \in DOMAIN Segs : LET s == Segs[k] IN
      \A a \in Start(s) .. (Start(s) + s.memsz - 1) :
        LET over == {j \in DOMAIN Segs : a >= Start(Segs[j]) /\ a < Start(Segs[j]) + Segs[j].filesz}
            rel == {i \in DOMAIN Entries : Entries[i].at + Bias = a}
            add(i) == IF i <= Len(Elf.dyn) THEN Entries[i].add ELSE 0
        IN  /\ s.perm \subseteq perm[FrameDown(a)]
            /\ rel = {} /\ over = {} => mem[a] = 0
            /\ rel = {} /\ over # {} =>
                 LET j == CHOOSE j \in over : \A i \in over : i <= j
                 IN  mem[a] = Segs[j].offset + (a - Start(Segs[j])) + 1
            /\ rel # {} => LET i == CHOOSE i \in rel : \A j \in rel : j <= i
                           IN  mem[a] = Bias + add(i) + (IF Entries[i].kind = "relative" THEN 0 ELSE Entries[i].sym)

\* The page under the stack is not mapped, so that a program, or the kernel below, that
\* runs over the end of the stack meets no data; nor does the kernel core lie there.  (An empty
\* segment moves the break without a page: then the core may end right below the stack.)
GuardBelowStack ==
  Loaded => \A p \in ImagePages : perm[p] # Nil =>
    \/ p < low - FRAME_SIZE
    \/ p \in exe.core /\ (p >= low \/ \E k \in DOMAIN Segs : Segs[k].memsz = 0)

\* Whatever does not fit, at most the word under the stack is tried, which lies in the
\* unmapped page: the pushes cannot write into the program.
OverrunStopsAtGuard == Len(stack) <= exe.call.stack + 1

\* The program finds what it was called with: from the stack pointer up argc, that many
\* addresses of the strings in order, 0, the environment in order, 0, and
\* pairs with every key of the vector up to the key 0.
ArgumentsReadBack ==
  result = "ok" =>
    LET sp == Len(stack)
        n == Len(argv)
        m == Len(exe.call.envp)
        at(i) == stack[sp - i]
        aux == n + m + 3
    IN  /\ at(0) = n /\ \A i \in 1..n : stack[at(i)] = argv[i]
        /\ at(n + 1) = 0
        /\ \A i \in 1..m : stack[at(n + 1 + i)] = Strings("env", exe.call.envp)[i]
        /\ at(n + m + 2) = 0
        /\ at(aux + 2 * Len(Keys)) = 0
        /\ {at(aux + 2 * (i - 1)) : i \in DOMAIN Keys} = ToSet(Keys)
        /\ \A i \in DOMAIN Keys : at(aux + 2 * i - 1) = <<"value", at(aux + 2 * (i - 1))>>

\* An execve that returns an error has left the old program in place, unless it ran out of
\* stack: arguments that do not fit are noticed when the old program is gone.
FailedExecKeepsImage == result = "error" => image = "old"

\* A panic while a file is read means that it changed meanwhile, or that it is libc.so and could
\* not be opened from the working directory, which build_vm_space does not expect.
ReadPanicHasCause == result = "panic_read" => edits > 0 \/ "libc" \notin exe.call.opens

\* the words that strings, vector, pointers and argc take together
Needed ==
  LET words(list) == FoldLeft(LAMBDA n, s : n + s[3], 0, list)
      envp == Strings("env", exe.call.envp)
  IN  words(argv) + words(envp) + Len(argv) + Len(envp) + 2 * Len(Keys) + 9

\* execve loses the old program to a failure only when the arguments do not fit: from the time
\* do_execve has replaced the address space the size of the stack alone decides.
OnlySizeFailsLate ==
  phase = "done" /\ image = "new" => (result = "ok" <=> Needed <= exe.call.stack)

\* build_vm_space makes the image the file describes, and keeps the stack away from it.
ImageIsReady == ImageTypeOK /\ ImageIsLoaded /\ GuardBelowStack

\* execve comes to an end, also when the file is cut off while it is being read, and if the old
\* program is gone then it has ended well if and only if the arguments fit.
ExecveEndsRight == <>(phase = "done" /\ OnlySizeFailsLate)

\* UserStack::init writes what the program expects and nothing outside the stack.
StackIsReady == OverrunStopsAtGuard /\ ArgumentsReadBack

\* A failing execve is contained: unless it ran out of stack the old program goes on, and a
\* panic has a cause outside.
FailureIsContained == FailedExecKeepsImage /\ ReadPanicHasCause
=============================================================================
