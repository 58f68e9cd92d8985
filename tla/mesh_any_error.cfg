SPECIFICATION Spec
CONSTANTS
    Points = 3
    Holds = 5
    MaxSilent = 2
    MaxSlips = 2
INVARIANT LimitsSurvive
PROPERTY AcceptedMeshIsTrue
PROPERTY HomeGivesMesh
