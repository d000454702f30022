------------------------- MODULE MCBufferMigration -------------------------
(* Two tables, two overlapping runs of the migration, two rows, one kill.  *)
EXTENDS BufferMigration

CONSTANTS r1, r2, x1, x2

MCRun == {r1, r2}
MCRow == {x1, x2}
=============================================================================
