SPECIFICATION Spec
CONSTANTS
  SECTOR = 2
  CHUNK = 3
  INITIAL_KERNEL_SECTORS = 1
  MAX_KERNEL_SECTORS = 5
  KERNEL_LBA = 2
  KERNEL_BUFFER = 8
  INITRD_DEST = 24
  TOP = 40
  E820_MAX_ENTRIES = 2
  Statuses = {80}
  Disks <- MCLongInitrds
  Bioses <- MCBioses
INVARIANT InitrdReported
