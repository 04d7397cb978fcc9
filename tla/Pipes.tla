------------------------------- MODULE Pipes -------------------------------
(***************************************************************************)
(* The two named pipes between main() of pisovo_backup/prgsem.c and the    *)
(* computational module, opened by io_open_read and io_open_write of       *)
(* prg_io_nonblock.c.  An open of one end waits for the other end, unless  *)
(* it is asked not to; two opens that wait for each other return together. *)
(***************************************************************************)
EXTENDS Sequences

VARIABLES
  opened,   \* the ends that are open
  ppc,      \* the end main() opens next, or how far it is
  peer      \* the ends the computational module has still to open
pipevars == <<opened, ppc, peer>>

MainEnds == {"out_r", "in_w"}
PeerEnds == {"out_w", "in_r"}
Other    == [out_r |-> "out_w", out_w |-> "out_r", in_r |-> "in_w", in_w |-> "in_r"]

PipesInit == opened = {} /\ ppc = "out_r" /\ peer = <<>>

PeerWaits(end) == peer # <<>> /\ Head(peer) = Other[end]

\* An open that succeeds, for the waiting module too; the assertions of
\* io_open and of main() end the process when it does not.
Open(end, next) ==
  /\ ppc = end
  /\ \/ /\ ppc' = next
        /\ IF PeerWaits(end)
           THEN opened' = opened \cup {end, Other[end]} /\ peer' = Tail(peer)
           ELSE opened' = opened \cup {end} /\ UNCHANGED peer
     \/ ppc' = "aborted" /\ opened' = opened \cap PeerEnds /\ UNCHANGED peer

\* O_NONBLOCK: it does not wait for a writer.  Mutant: it is left out.
OpenReadBlocks == (PeerWaits("out_r") \/ "out_w" \in opened) /\ Open("out_r", "in_w")
io_open_read == Open("out_r", "in_w")
io_open_write == (PeerWaits("in_w") \/ "in_r" \in opened) /\ Open("in_w", "opened")

\* main() asserts once more that both are open.
my_assert(r) == ppc' = IF r THEN "open" ELSE "aborted"
Assert == /\ ppc = "opened"
          /\ my_assert(MainEnds \subseteq opened)
          /\ UNCHANGED <<opened, peer>>

PeerStarts == /\ peer = <<>> /\ opened \cap PeerEnds = {}
              /\ peer' \in {<<"in_r", "out_w">>, <<"out_w", "in_r">>}
              /\ UNCHANGED <<opened, ppc>>

PeerOpens == /\ peer # <<>> /\ Other[Head(peer)] \in opened
             /\ opened' = opened \cup {Head(peer)}
             /\ peer' = Tail(peer)
             /\ UNCHANGED ppc

io_close == /\ ppc = "open" /\ ppc' = "closed"
            /\ opened' = opened \cap PeerEnds
            /\ UNCHANGED peer

PrgsemMain == io_open_read \/ io_open_write \/ Assert \/ io_close
PipesNext  == PrgsemMain \/ PeerStarts \/ PeerOpens

\* main() and a module that was started open their ends when they can.
PipesFairness == WF_pipevars(PrgsemMain) /\ WF_pipevars(PeerOpens)

-----------------------------------------------------------------------------
\* main() and the computational module never wait for each other for ever, in
\* whichever order the module opens its ends: io_open_read, called first, must
\* not wait for a writer.
PipesMeet == (peer # <<>>) ~> (ppc \notin MainEnds)
=============================================================================
