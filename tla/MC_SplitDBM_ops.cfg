SPECIFICATION OpsSpec
INVARIANT Sound
INVARIANT NormalForm
INVARIANT JoinUpperBound
INVARIANT OverflowSound
