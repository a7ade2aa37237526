--------------------------- MODULE MCConstraintTool ---------------------------
\* The committed package, and the ways tests/test_smt_compile.py and a careless
\* author change it.
EXTENDS ConstraintPackage, TLC

AtLeast(out, bucket, domain, limit) == {Combine2(out, bucket, domain, 1, 1, ">=", limit)}

\* Ten states in a row.
Chain == <<"S0", "S1", "S2", "S3", "S4", "S5", "S6", "S7", "S8", "S9">>

ChainOf(ltls) ==
  [demo_collab EXCEPT
     !.states = {Chain[i] : i \in 1 .. 10},
     !.initial = "S0",
     !.deny = [s \in {Chain[i] : i \in 1 .. 10} |-> {}],
     !.eventParam = "step" :> Unset,
     !.transitions = [i \in 1 .. 9 |-> Trans(Chain[i], "step", Unset, Chain[i + 1])],
     !.ltls = ltls]

To255 == [i \in 1 .. 256 |-> i - 1]

MCPackages ==
  {demo_collab,
   \* accepted: other limits, lower bounds, no range for the speed, ten states
   [demo_collab EXCEPT !.enums[2] = <<1000, 2000, 5000>>,
                       !.combines = AtLeast(1, 2, <<1000, 2000, 5000>>, 100000)],
   [demo_collab EXCEPT !.ranges = {RangeEntry(3, 0, 120000)}],
   ChainOf({F({{Is("S9")}}), Next_({{Is("S8")}}, {{Is("S8")}, {Is("S9")}})}),
   \* accepted, and outside what the properties promise
   [demo_collab EXCEPT !.enums[2] = <<10000, 0, 1000, 2000, 5000>>],
   [demo_collab EXCEPT !.enums[5] = <<0, 1, 2, 65535>>, !.transitions = <<Trans("IDLE", "mode_switch", 65535, "ESTOP_LATCH")>> \o @],
   [demo_collab EXCEPT !.ranges = {RangeEntry(1, -90, 250), RangeEntry(3, 0, 120000)}, !.restricts = {}],
   [demo_collab EXCEPT !.ranges = {RangeEntry(1, 0, 250), RangeEntry(3, -90, -10)}, !.restricts = {}],
   [demo_collab EXCEPT !.enums[4] = To255, !.denials = {WhenDeny(4, To255, {1, 2})}, !.restricts = {}],
   \* refused
   [demo_collab EXCEPT !.ranges = @ \cup {RangeEntry(1, 251, 300)}],
   [demo_collab EXCEPT !.enums[2] = <<0, 2000, 1000>>],
   [demo_collab EXCEPT !.denials = @ \cup {WhenDeny(4, <<9>>, {1, 2})}],
   [demo_collab EXCEPT !.deny = [s \in demo_collab.states |-> {}]],
   [demo_collab EXCEPT !.deny["ESTOP_LATCH"] = {1, 2, 35}],
   [demo_collab EXCEPT !.transitions = @ \o <<Trans("IDLE", "mode_switch", 0, "MANUAL")>>],
   [demo_collab EXCEPT !.transitions = @ \o <<Trans(Anything, "mode_switch", Unset, "COLLAB")>>],
   [demo_collab EXCEPT !.transitions = SubSeq(@, 1, 11) \o <<@[13]>>],
   [demo_collab EXCEPT !.ltls = @ \cup {Formula("->", {{Is("ESTOP_LATCH")}}, {{Forbids("motion")}})}],
   ChainOf({G({{IsNot("S9")}})})}

MCObjects ==
  {<<>>} \cup
  {1 :> speed @@ 2 :> payload @@ 4 :> door @@ 3 :> force @@ 5 :> mode :
     speed \in {0, 20, 44, 45, 100, 101, 250, 251}, payload \in {0, 1000, 5000, 10000, 3},
     door \in {0, 1}, force \in {120000, 120001}, mode \in {0, 1, 2}}
  \cup \* -50 as the tables have it
  {1 :> speed @@ 2 :> 0 @@ 4 :> 0 @@ 3 :> Word - 50 @@ 5 :> 0 : speed \in {0, 250}}

MCEventParams == {0, 1, 2, 3}
=============================================================================
