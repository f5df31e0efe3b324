----------------------------- MODULE MCBackends -----------------------------
(* A one- and a two-dimensional variable in groups and one beside the scales. *)
EXTENDS Backends

TestVars == (<<"MetaData", "id">> :> <<LocationPath>>)
         @@ (<<"ObsValue", "air">> :> <<LocationPath, ChannelPath>>)
         @@ (<<"air">> :> <<LocationPath>>)
=============================================================================
