---------------------------- MODULE MCUserImage ----------------------------
EXTENDS UserImage

Seg(off, at, filesz, memsz, flags) ==
  [offset |-> off, start |-> at, filesz |-> filesz, memsz |-> memsz, perm |-> flags]
RX == {"r", "x"}
RW == {"r", "w"}

\* Two segments: apart, on one page, overlapping; with memory beyond the file data; none;
\* and the ones that are refused.
MCSegs ==
  {<<Seg(0, 0, 2, 2, RX), Seg(2, a, f, m, RW)>> : a \in 1..4, f \in 0..3, m \in 0..3} \cup {<<>>}

MCFile(len, typ, interp, x, segs, dyn, plt) ==
  [len |-> len, typ |-> typ, interp |-> interp, x |-> x, segs |-> segs, dyn |-> dyn, plt |-> plt]
Ent(kind, at, add, sym) == [kind |-> kind, at |-> at, add |-> add, sym |-> sym]
Moved == Ent("relative", 1, 2, Nil)

MCLibc == MCFile(4, "dyn", FALSE, TRUE, <<Seg(0, 0, 2, 3, RX), Seg(2, 3, 2, 3, RW)>>,
                 <<Ent("relative", 3, 1, Nil), Ent("relative", 4, 3, Nil)>>, Nil)
Plain == MCFile(2, "exec", FALSE, TRUE, <<Seg(0, 1, 2, 2, RX)>>, Nil, Nil)

\* Relocated programs: each type of entry in each table, with and without its symbol, on
\* the program, on a word already relocated, outside; and a table that is missing.
Tables ==
  {<<<<Moved, Ent(k, at, 1, s)>>, Nil>> : k \in {"abs", "relative", "other"}, at \in {0, 1, 9}, s \in {Nil, 4}}
  \cup {<<<<Moved, Ent(k, 1, 0, 4)>>, Nil>> : k \in {"got", "plt"}}
  \cup {<<<<Moved>>, <<Ent(k, at, 1, s)>>>> : k \in {"plt", "abs"}, at \in {0, 1, 9}, s \in {Nil, 4}}
  \cup {<<Nil, <<>>>>}
Linked == {MCFile(2, "dyn", FALSE, TRUE, <<Seg(0, 0, 2, 2, RX)>>, t[1], t[2]) : t \in Tables}

\* The kernel core below the place of a moved program, over it, over all, above.
Cores == {0..5, 4..9, 0..17, 12..17}
CorePages == {{}} \cup {{p \in c : p % 2 = 0} : c \in Cores}

Exe(file, call, arch, core) == [file |-> file, call |-> call, arch |-> arch, core |-> core]
Call(args, env, room, first) ==
  [argv |-> args, envp |-> env, stack |-> room, first |-> first, opens |-> {"prog", "libc"}]
Only(opens, call) == [call EXCEPT !.opens = opens]
Roomy == Call(<<1>>, <<>>, 40, FALSE)

\* Many programs with room on the stack, and one program with every size of stack.
MCExes ==
  {Exe(MCFile(5, typ, FALSE, TRUE, segs, <<Moved>>, Nil), Roomy, "riscv64", {}) :
     typ \in {"exec", "dyn"}, segs \in MCSegs}
  \cup {Exe(f, Roomy, arch, {}) : f \in Linked, arch \in {"riscv64", "x86_64"}}
  \cup {Exe(MCFile(5, typ, FALSE, TRUE, <<Seg(0, 1, 2, 2, RX)>>, <<Moved>>, Nil),
            Call(<<1>>, <<>>, room, FALSE), "x86_64", core) :
          typ \in {"exec", "dyn"}, room \in {4, 40}, core \in CorePages}
  \cup {Exe(MCFile(3, "dyn", TRUE, x, <<>>, Nil, Nil), Only(opens, Call(<<1, 2>>, <<1>>, 40, FALSE)), "riscv64", {}) :
          x \in BOOLEAN, opens \in SUBSET {"prog", "libc"}}
  \cup {Exe(MCFile(1, "rel", FALSE, TRUE, <<>>, Nil, Nil), Call(<<>>, <<>>, 40, FALSE), "riscv64", {})}
  \cup {Exe(Plain, Call(args, env, room, first), "riscv64", {}) :
          args \in {<<>>, <<1, 2>>, <<2, 1, 1>>}, env \in {<<>>, <<2, 1>>}, room \in 3..32, first \in BOOLEAN}
=============================================================================
