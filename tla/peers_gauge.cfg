SPECIFICATION Spec
CONSTANTS
  me = me
  old = old
  new = new
  Names <- MCNames
  Addrs <- MCAddrs
  Literal <- MCLiteral
  Dial <- MCDial
  AddrOf <- MCAddrOf
  Self = me
  Known <- MCAddrs
  Answers <- MCAnswers
  MyAddr = "self"
  NoAddr = NoAddr
  ChangesCap = 1
INVARIANT GaugeCountsFailed
