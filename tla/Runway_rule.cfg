CONSTANT MaxWaiting = 5
SPECIFICATION ClockSpec
INVARIANT SwitchIn15
