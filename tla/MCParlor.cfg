SPECIFICATION Spec
CHECK_DEADLOCK FALSE
CONSTANTS
    Inputs <- QuietDays
INVARIANTS OneMachinePerOrder StockAccounted 
 
