--------------------------- MODULE MCPageActions ---------------------------
(* One container in a stack; DoUpRo itself runs outside of any.            *)
EXTENDS PageActions, TLC
CONSTANTS t1, t2, app, doupro, media
MCStackOf == (app :> media) @@ (doupro :> Ungrouped)
=============================================================================
