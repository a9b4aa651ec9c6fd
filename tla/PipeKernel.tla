----------------------------- MODULE PipeKernel -----------------------------
(***************************************************************************)
(* The kernel's side of pipes and FIFOs, as the programs use it: who holds *)
(* which end, what is in the pipe, and what read and write do then.        *)
(***************************************************************************)
EXTENDS Naturals, Sequences

VARIABLES
  content,           \* per pipe: the pieces written and not yet read
  readers, writers,  \* per pipe: the processes that hold its read end, its write end
  sent, got,         \* per pipe, history: all that was written, all that read returned
  over               \* per pipe: a reader has seen the end

kvars == <<content, readers, writers, sent, got, over>>
ends == <<readers, writers>>
pieces == <<content, sent, got, over>>

Pipes == {"pipe", "aFifo", "bFifo"}

KernelInit ==
  /\ content = [x \in Pipes |-> <<>>]
  /\ sent = [x \in Pipes |-> <<>>] /\ got = [x \in Pipes |-> <<>>]
  /\ over = [x \in Pipes |-> FALSE]

\* write(fd, ...) while somebody could read; without a reader the writer gets SIGPIPE.
Put(x) ==
  /\ readers[x] # {}
  /\ content' = [content EXCEPT ![x] = Append(@, Len(sent[x]))]
  /\ sent' = [sent EXCEPT ![x] = Append(@, Len(sent[x]))]
  /\ UNCHANGED <<got, over, ends>>

\* read(fd, ...) takes what is there, up to the size of the buffer.  What a program prints may
\* be more: its buffer is not cleared before the first text (pipe.c, read.c, ps_aux_grep_xx.c).
Take(x) ==
  /\ \E k \in 1..Len(content[x]) :
       /\ got' = [got EXCEPT ![x] = @ \o SubSeq(content[x], 1, k)]
       /\ content' = [content EXCEPT ![x] = SubSeq(@, k + 1, Len(@))]
  /\ UNCHANGED <<sent, over, ends>>

\* read returns 0: the pipe is empty and nobody holds its write end.
AtEnd(x) == content[x] = <<>> /\ writers[x] = {}

\* The processes of ps are gone, and with them their ends.
Drop(ps) ==
  /\ readers' = [x \in Pipes |-> readers[x] \ ps]
  /\ writers' = [x \in Pipes |-> writers[x] \ ps]
=============================================================================
