SPECIFICATION Spec
CONSTANT MaxGeneration = 4
PROPERTY HoldPreempts
