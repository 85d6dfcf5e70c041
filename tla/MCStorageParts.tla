--------------------------- MODULE MCStorageParts ---------------------------
(***************************************************************************)
(* The parts of the storage engine that work without the others, for TLC:  *)
(* the bitmap page, the disk manager, the replacer and the slotted page.   *)
(* A behaviour is one of one part, chosen at the beginning, while the      *)
(* others rest in their initial states.                                    *)
(***************************************************************************)
EXTENDS MCDiskManager, BitmapPage, LRUReplacer, TablePage

VARIABLE part       (* The part that is used.                              *)

partsVars == <<part, vars, bitmapVars, lruVars, tablePageVars>>

PartsInit ==
  /\ part \in {"bitmap", "disk", "replacer", "table page"}
  /\ BitmapInit /\ LRUInit /\ TablePageInit
  /\ Init /\ (part # "disk" => client = "careful")

PartsNext ==
  /\ UNCHANGED part
  /\ \/ /\ part = "bitmap" /\ BitmapNext
        /\ UNCHANGED <<vars, lruVars, tablePageVars>>
     \/ /\ part = "disk" /\ Next
        /\ UNCHANGED <<bitmapVars, lruVars, tablePageVars>>
     \/ /\ part = "replacer" /\ LRUNext
        /\ UNCHANGED <<vars, bitmapVars, tablePageVars>>
     \/ /\ part = "table page" /\ TablePageNext
        /\ UNCHANGED <<vars, bitmapVars, lruVars>>

PartsSpec == PartsInit /\ [][PartsNext]_partsVars
=============================================================================
