---------------------------- MODULE MCMigrations ----------------------------
(***************************************************************************)
(* Instances of Migrations for TLC.                                        *)
(***************************************************************************)
EXTENDS Migrations, TLC

CONSTANTS old, new, edited, c1, c2, c3, d2

\* The release before, the release with one more migration, and one that was
\* built without the first file and with another second one.
ThreeBuilds ==
  old    :> (1 :> c1 @@ 2 :> c2) @@
  new    :> (1 :> c1 @@ 2 :> c2 @@ 3 :> c3) @@
  edited :> (2 :> d2 @@ 3 :> c3)
=============================================================================
