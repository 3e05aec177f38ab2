\* One queue file, five rows over its life, any number of callers and restarts.
CONSTANT MaxRows = 5
SPECIFICATION Spec
INVARIANT HeldStaysDequeued
PROPERTY ImplementsWorkQueue
