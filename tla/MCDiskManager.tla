---------------------------- MODULE MCDiskManager ----------------------------
(* Values for the constants of DiskManager that a .cfg cannot write.       *)
EXTENDS DiskManager, TLC

CONSTANTS zero, d1

MCData == {zero, d1}

(* d1 happens to read as a full bitmap. *)
MCReadAsBitmap ==
  (zero :> ZeroBitmap) @@
  (d1 :> [page_allocated_ |-> BITMAP_SIZE, next_free_page_ |-> BITMAP_SIZE,
          bytes |-> Offsets])

MCUninitialised == {0, 1}

MCOperations == [careful   |-> {"free", "write", "reopen"},
                 appending |-> {},
                 any       |-> {"free", "reopen"}]

(* Careful clients reach their limit, appending ones fill two extents, the *)
(* others wrap the count.                                                  *)
MCMaxPages == [careful   |-> BITMAP_SIZE - 1,
               appending |-> 2 * BITMAP_SIZE,
               any       |-> 2]

(* For the run that shows what happens to clients of any kind. *)
AnyReopens == [any |-> {"free", "reopen"}]

TwoPages == [any |-> 2]
=============================================================================
