--------------------------- MODULE MCTreasuryPaper ---------------------------
(***************************************************************************)
(* The instances of Treasury and PaperEngine side by side, to check both   *)
(* in one run.  They share nothing: in a behaviour one of them moves and   *)
(* the other waits in an initial state.                                    *)
(***************************************************************************)
EXTENDS MCTreasury, MCPaperEngine

VARIABLE moves_paper

BothInit ==
    /\ MCInit /\ MCPaperInit
    /\ \/ moves_paper = FALSE /\ paper_scene = "book"
       \/ moves_paper = TRUE /\ scene = "books"

BothNext ==
    /\ \/ moves_paper /\ MCPaperNext /\ UNCHANGED mc_vars
       \/ ~ moves_paper /\ MCNext /\ UNCHANGED mc_paper_vars
    /\ UNCHANGED moves_paper

BothSpec == BothInit /\ [][BothNext]_<<mc_vars, mc_paper_vars, moves_paper>>

=============================================================================
