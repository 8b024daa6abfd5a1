---------------------------- MODULE MCSharedModel ----------------------------
(* Two instances of SharedModel.  In the first, one thread serves two       *)
(* sessions on one model, as a scheduler does; both threads call a third    *)
(* instance, without streaming, and the second one also an instance of a    *)
(* model that cannot stream.  In the second, two threads use instances of   *)
(* their own on one model.                                                  *)
EXTENDS SharedModel, TLC

CONSTANTS t1, t2, a, b, c, d

MCUses == (t1 :> {a, b, c}) @@ (t2 :> {c, d})
MCModelOf == (a :> "m1") @@ (b :> "m1") @@ (c :> "m2") @@ (d :> "m3")
MCUsesOwn == (t1 :> {a}) @@ (t2 :> {b})
MCOneModel == (a :> "m1") @@ (b :> "m1")
=============================================================================
