--------------------------- MODULE MCConfigWatch ---------------------------
(* An instance of ConfigWatch for TLC: files that take each branch of Load. *)
EXTENDS ConfigWatch, TLC

CONSTANTS a, b, c, gpu0, gpu1, o1, o2

Plain == [mode |-> "background", command |-> TRUE, origin |-> o1, gpu |-> gpu0,
          autostart |-> FALSE, resident |-> FALSE, no_pool |-> FALSE, sleeps |-> FALSE]
Coder == [Plain EXCEPT !.mode = "coding"]
Remote(m, o) == <<[model |-> m, origin |-> o]>>

Conf(models, backends) ==
  [yaml |-> TRUE, decodes |-> TRUE, legacy |-> FALSE, fixed |-> 0, models |-> models, backends |-> backends]

Empty == Conf(<<>>, <<>>)
BadValue == [Empty EXCEPT !.decodes = FALSE]
Broken == [BadValue EXCEPT !.yaml = FALSE]
(* Two that swap into a gpu on one port, and a back end. *)
Swap == Conf(a :> Plain @@ b :> Plain, Remote(c, o2))
SwapLocal == [Swap EXCEPT !.backends = <<>>]
Legacy == [SwapLocal EXCEPT !.legacy = TRUE]
Moved == [SwapLocal EXCEPT !.models[b].origin = o2]
Readdressed == [SwapLocal EXCEPT !.fixed = 1]
(* Three on a port, one of which runs beside the others. *)
Third == Conf(a :> Plain @@ b :> Plain @@ c :> [Plain EXCEPT !.gpu = gpu1], <<>>)
Staying == Conf(a :> Plain @@ b :> [Plain EXCEPT !.gpu = None, !.resident = TRUE] @@ c :> Coder, <<>>)
Pinned == Conf(a :> [Plain EXCEPT !.resident = TRUE] @@ b :> [Coder EXCEPT !.origin = o2], <<>>)
PinnedPort == Conf(a :> [Plain EXCEPT !.resident = TRUE] @@ b :> [Plain EXCEPT !.gpu = gpu1], <<>>)
Group == Conf(a :> [Plain EXCEPT !.autostart = TRUE] @@ b :> [Plain EXCEPT !.autostart = TRUE, !.origin = o2], <<>>)
Sleeper == Conf(a :> [Plain EXCEPT !.sleeps = TRUE], <<>>)
CoderSharesPort == Conf(a :> Coder @@ b :> [Plain EXCEPT !.gpu = gpu1, !.resident = TRUE], <<>>)
CoderAndRemote == Conf(a :> Coder, Remote(None, o1))
Twice == Conf(<<>>, Remote(a, o1) \o Remote(a, o2))

Files == {Empty, BadValue, Broken, Swap, SwapLocal, Legacy, Moved, Readdressed, Third, Staying, Pinned,
          PinnedPort, Group, Sleeper, CoderSharesPort, CoderAndRemote, Twice}
SavedFiles == {Empty, Broken, SwapLocal, Legacy, Moved, Third}
=============================================================================
