--------------------------- MODULE MCRuntimeConfig --------------------------
(***************************************************************************)
(* RuntimeConfig with the defaults and overlays that tell its cases apart. *)
(***************************************************************************)
EXTENDS RuntimeConfig, TLC

Config(tl, tr, rl, rr, m) ==
  [ttl  |-> ("local" :> tl @@ "remote" :> tr),
   ramp |-> ("local" :> rl @@ "remote" :> rr),
   memo |-> m]

MCTtls == {Absent, NotFinite, 0, 1, 2, 3}

MCRamps == {Absent, NotFinite, -1, 0, 1, 2, 3, 4}

MCSamples == {NotFinite, -1, 1, 4}

\* enabled(ttl); a partial rollout with memo; remote only; one with a bad TTL
\* and one with a bad ramp, which registration refuses.
MCDefaults ==
  {None,
   Config(1, 1, 3, 3, Absent),
   Config(1, 1, 1, 2, TRUE),
   Config(Absent, 1, Absent, Absent, Absent),
   Config(0, 1, 3, 3, Absent),
   Config(1, 1, 3, 4, FALSE)}

\* Nothing, garbage, the empty config, the kill switch; all of the load on one
\* layer or the other; a larger and a smaller rollout; invalid and
\* out-of-range leaves; a full policy of its own.
MCOverlays ==
  {None, Broken, NoConfig, KillSwitch,
   Config(Absent, Absent, 0, 3, Absent),
   Config(Absent, Absent, 3, 0, Absent),
   Config(Absent, Absent, 2, 2, Absent),
   Config(Absent, Absent, 1, 1, FALSE),
   Config(3, 2, NotFinite, NotFinite, Absent),
   Config(NotFinite, Absent, -1, 4, Absent),
   Config(1, 1, Absent, 2, TRUE)}

Alike == Permutations(Calls)
=============================================================================
