------------------------ MODULE MCMax1187xReports ---------------------------
(* The instance of Max1187xReports for TLC.                                *)
EXTENDS Max1187xReports

\* More readers than slots; readers of images and an unbind; a reader and a
\* caller; two callers; a caller and an unbind.  More at a time would only
\* multiply.
Cast(users, posts) == [users |-> users, posts |-> posts]
Five == {Cast({"r1", "r2", "r3"}, {"touch"}), Cast({"r1", "r2", "shutdown"}, {"image"}),
         Cast({"r1", "c1"}, {"touch"}), Cast({"c1", "c2"}, {}), Cast({"c1", "shutdown"}, {})}

\* An unbind while somebody reads the file "report".
Unbind == {Cast({"r1", "shutdown"}, {"touch"})}

=============================================================================
