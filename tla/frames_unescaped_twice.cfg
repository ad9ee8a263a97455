CONSTANTS
  Traffic <- Unescaped
  Noise <- Clear
  Reports <- Nobody
  Strays <- Clear
  MaxRead = 12
  BUF_MAX = 32
  Created <- Always
SPECIFICATION Spec
PROPERTIES
  AllDelivered
