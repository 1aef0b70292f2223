SPECIFICATION SpiSpec
CONSTANTS
    Pclks = {84000000}
    Maxima = {200000, 10500000}
    MaxBytes = 1
    Ids = 2
INVARIANT SckUnderMaximum
