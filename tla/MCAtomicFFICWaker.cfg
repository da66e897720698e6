SPECIFICATION Spec
CONSTANTS
  Handle = {base, a, b}
  Base = base
  Updaters <- MCUpdaters
  CWaker = {w1, w2}
  NoWaker = NoWaker
INVARIANTS
  TypeOK
  LockExclusion
  BoxOutlivesHandles
  HostWakersLive
  NoWakerLeak
  DelegatedWakeKept
PROPERTIES
  KeepsContract
