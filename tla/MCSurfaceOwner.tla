--------------------------- MODULE MCSurfaceOwner ---------------------------
(* Small instances of the surface owner for TLC.                           *)
EXTENDS SurfaceOwner, TLC

\* A one-pixel surface that fills its region.
OneLayout ==
    {[width |-> 1, height |-> 1, stride |-> 4, offset |-> 0, length |-> 4]}

\* Layouts on both sides of each bound of layout_for: the pixel range at the end
\* of its region and one past it, a stride too short, unaligned or too long.
BoundaryLayouts ==
    {[width |-> 1, height |-> 1, stride |-> 4, offset |-> 0, length |-> 4],
     [width |-> 1, height |-> 2, stride |-> 4, offset |-> 4, length |-> 12],
     [width |-> 1, height |-> 2, stride |-> 4, offset |-> 5, length |-> 12],
     [width |-> 2, height |-> 1, stride |-> 4, offset |-> 0, length |-> 4],
     [width |-> 1, height |-> 1, stride |-> 6, offset |-> 0, length |-> 8],
     [width |-> 1, height |-> 1, stride |-> 16, offset |-> 0, length |-> 16],
     [width |-> 1, height |-> 1, stride |-> 4, offset |-> 0, length |-> 16]}

\* Workers, renderers and pixels are only ever compared for equality.
Symmetry ==
    Permutations(Workers) \cup Permutations(Renderers) \cup Permutations(Pixels)

\* Behaviours with a restart allocate one surface in each epoch, in one session.
FewSurfacesAcrossRestarts ==
    (\E access \in issued : access.epoch # epoch) =>
        /\ \A e \in Epochs : Cardinality({access \in issued : access.epoch = e}) <= 1
        /\ Cardinality({s \in Sessions : sessionState[s] # "Unknown"}) <= 1

=============================================================================
