\* Digits on both sides of every decimal carry, bytes at the edges of the
\* digits and the sign, words at the edges of the bytes.
SPECIFICATION ProgSpec
CONSTANTS
    Digits = {0, 1, 4, 5, 8, 9}
    Bytes = {0, 9, 15, 127, 128, 255}
    Words = {0, 1, 255, 256, 4095, 4096, 32768, 65535}
INVARIANTS DecimalArithmetic WideArithmetic CounterpartsCancel AccessesFitDuration
