SPECIFICATION HeapSpec
CONSTANTS
  Elem = {1, 2, 3, 4, 5, 6}
  MaxLen = 5
  Nothing = Nothing
PROPERTIES Implements
