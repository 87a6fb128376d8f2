SPECIFICATION HeapSpec
CONSTANTS
  Elem = {1, 2, 3, 4, 5, 6, 7}
  MaxLen = 6
  Nothing = Nothing
PROPERTIES Implements
