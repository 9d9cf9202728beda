--------------------------- MODULE MCTenantSettings ---------------------------
(* Small instances of TenantSettings. *)
EXTENDS TenantSettings, TLC

Rows == [present : {{}, {"bot"}, {"bot", "business"}, {"business", "data"}, Sections},
         drafted : {{}, {"bot", "booking"}}]
=============================================================================
