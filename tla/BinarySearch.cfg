\* Rows of up to 4 sorted column indices out of 0..4, every key of 0..4;
\* indptr arrays of up to 4 rows (empty rows included) with nnz up to 4.
CONSTANTS
  MaxIndex = 4
  MaxLen = 4
  MaxRows = 4
  MaxNnz = 4
SPECIFICATION Spec
INVARIANT TypeOK
INVARIANT ReadsInBounds
INVARIANT SearchResultCorrect
PROPERTY Terminates
\* A search block ends: the program really stops after it.
CHECK_DEADLOCK FALSE
