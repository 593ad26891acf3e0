CONSTANTS
  Last = 13
  Tried = "all"
  Again = FALSE
  Statics = {"unpack_t", "unpack_i", "unpack_j"}
  Ports = {"clearcolor", "channel", "state", "sound", "volume", "speed", "loop", "position", "owner", "MV_BUF", "MV_BUF1", "MV_BUF2", "MV_BUF3", "MV_BUF4", "RET_COUNT"}
  Frame = {"l.a", "l.b", "l.c", "l.d", "l.index", "l.limit", "l.step", "l.ctrl", "l.iter", "l.state", "l.key",
           "l.all_t", "l.all_i", "l.all_prev", "l.varargs", "l.p1", "l.p2", "l.target", "l.self", "l.sp", "l.cnt"}
SPECIFICATION Spec
INVARIANTS
  OperandsReach
  StackBalanced
  RegistersReturned
  EffectsStay
  EvaluatedOnce
CHECK_DEADLOCK FALSE
